---- MODULE Spec2Model ----
(***************************************************************************)
(* A model of the sequin data-access layer (server/src/db/sequin) and of   *)
(* the sqlite3 connection adapter it runs on.                              *)
(*                                                                         *)
(* The specifications share the definitions below:                         *)
(*   Spec         the Database facade as concurrent asynchronous calls:    *)
(*                the AsyncMutex, the lock depth counter and the           *)
(*                statements that reach the connection (SpecNested adds    *)
(*                nested calls, SpecLive fairness);                        *)
(*   SpecStore    the facade's operations run one after the other against  *)
(*                the stored tables (main, full-text and vector shadow);   *)
(*   SpecConn     the connection adapter's execute / executeInTransaction  *)
(*                called directly with statement lists;                    *)
(*   SpecCompile  the compilation of where-conditions;                     *)
(*   SpecSchema   createTables; SpecTypeof the recursion of typeofColumn;  *)
(*   SpecUpsert   the batch loop of upsertRows;                            *)
(*   SpecObserver the callback managers of the observer;                   *)
(*   SpecBuilder  TableQueryBuilder with conditions as objects;            *)
(*   SpecNaming   the names derived in sqlite/naming.ts.                   *)
(***************************************************************************)
EXTENDS Integers, Sequences, FiniteSets, TLC

VARIABLES
    db,        \* the tables as the connection sees them
    durable,   \* the tables as last committed
    inTxn,     \* TRUE while the connection has an open transaction
    fkOn,      \* whether the engine enforces the declared foreign keys
    lastOp,    \* the last facade or connection call and what it returned
    nOps,      \* number of calls made so far
    deleted,   \* history: the tables deleteRows / deleteWhere removed keys from
    pc,        \* Spec: each call's position
    op,        \* Spec: each call's operation
    sent,      \* Spec: per call, statements handed to the connection so far
    depth,     \* Spec: Database._mutexLockDepth
    queue,     \* Spec: calls waiting in AsyncMutex.promise, in lock() order
    held,      \* Spec: TRUE from a lock()'s resolution to its release()
    log,       \* Spec: the connection's execution log (call ids)
    raised,    \* Spec: per call, the error the connection raised for it (0: none)
    outcome,   \* Spec: per call, what its caller got back
    emitted,   \* Spec: the observer emissions, in order
    inner      \* Spec: per call, the state of its nested _withMutex call

storeVars == <<db, durable, inTxn, fkOn, lastOp, nOps, deleted>>
mutexVars == <<pc, op, sent, depth, queue, held, log, raised, outcome, emitted, inner>>
vars == <<db, durable, inTxn, fkOn, lastOp, nOps, deleted,
          pc, op, sent, depth, queue, held, log, raised, outcome, emitted, inner>>

----------------------------------------------------------------------------
(* Bounds of the model *)

MaxPK == 2
MaxVal == 2
MaxRows == 2
MaxOps == 2

PKs == 1..MaxPK
Vals == 1..MaxVal

----------------------------------------------------------------------------
(* Schema model: constructors.ts, and the example schema of the repository *)

DBTypeOf(type) == [type |-> type, table |-> "", noReplaceOnUpsert |-> FALSE]

DBForeignKey(table) == [type |-> "foreignKey", table |-> table, noReplaceOnUpsert |-> FALSE]

noReplaceOnUpsert(column) == [column EXCEPT !.noReplaceOnUpsert = TRUE]

Schema ==
    [ user |->
        [ primaryKey |-> "id",
          columns |-> [ id |-> DBTypeOf("number"),
                        name |-> noReplaceOnUpsert(DBTypeOf("string")) ] ],
      post |->
        [ primaryKey |-> "id",
          columns |-> [ id |-> DBTypeOf("number"),
                        author |-> DBForeignKey("user"),
                        title |-> DBTypeOf("string"),
                        pin |-> noReplaceOnUpsert(DBTypeOf("string")),
                        content |-> DBTypeOf("fullTextString"),
                        note |-> noReplaceOnUpsert(DBTypeOf("fullTextString")),
                        emb |-> DBTypeOf("vector") ] ],
      comment |->
        [ primaryKey |-> "id",
          columns |-> [ id |-> DBTypeOf("number"),
                        post |-> DBForeignKey("post"),
                        user |-> DBForeignKey("user") ] ] ]

TableNames == DOMAIN Schema

Columns(t) == DOMAIN Schema[t].columns

PrimaryKey(t) == Schema[t].primaryKey

----------------------------------------------------------------------------
(* sqlite/naming.ts *)

getFTS5VirtualTableName(t) == [base |-> t, suffix |-> "_fts5"]

getVectorVirtualTableName(t) == [base |-> t, suffix |-> "_vector"]

MainTableName(t) == [base |-> t, suffix |-> ""]

VTABLE_COLUMN_ORIGINPK == "originPK"

----------------------------------------------------------------------------
(* sqlite/util.ts *)

getFullTextColumns(t) == {c \in Columns(t) : Schema[t].columns[c].type = "fullTextString"}

getVectorColumns(t) == {c \in Columns(t) : Schema[t].columns[c].type = "vector"}

NonVirtualColumns(t) == Columns(t) \ (getFullTextColumns(t) \cup getVectorColumns(t))

ForeignKeyColumns(t) == {c \in Columns(t) : Schema[t].columns[c].type = "foreignKey"}

Restrict(row, cols) == [c \in (DOMAIN row) \cap cols |-> row[c]]

filterNonVirtualColumns(row, t) == Restrict(row, NonVirtualColumns(t))

filterFullTextColumns(row, t) == Restrict(row, getFullTextColumns(t))

filterAndSerializeVectorColumns(row, t) == Restrict(row, getVectorColumns(t))

\* a shadow row: the originPK column and the given columns
ShadowValues(pk, values) ==
    [c \in {VTABLE_COLUMN_ORIGINPK} \cup DOMAIN values |->
        IF c = VTABLE_COLUMN_ORIGINPK THEN pk ELSE values[c]]

----------------------------------------------------------------------------
(* The storage engine: what the SQL text of a compiled statement does to    *)
(* the tables.  db.main[t][p] is the row of table t with primary key p (or *)
(* NoRow); db.fts[t][p] and db.vec[t][p] are the rows of the shadow tables  *)
(* t_fts5 and t_vector whose originPK is p, in rowid order.                 *)

NoRow == [c \in {} |-> 0]

EmptyDB ==
    [ main |-> [t \in TableNames |-> [p \in PKs |-> NoRow]],
      fts  |-> [t \in TableNames |-> [p \in PKs |-> <<>>]],
      vec  |-> [t \in TableNames |-> [p \in PKs |-> <<>>]] ]

\* a compiled statement ({sql, parameters}), by the shape of its SQL text
Stmt(k, tbl, rows, pks, cols) == [k |-> k, tbl |-> tbl, rows |-> rows, pks |-> pks, cols |-> cols]

SeqToSet(s) == {s[i] : i \in DOMAIN s}

\* The({e(x) : x \in {v}}) is e(x) with x naming the value of v, computed once
The(S) == CHOOSE x \in S : TRUE

\* every foreign key of row r of table t names an existing row (REFERENCES)
ForeignKeysHold(m, t, r) ==
    \A c \in ForeignKeyColumns(t) \cap DOMAIN r :
        m[Schema[t].columns[c].table][r[c]] # NoRow

\* INSERT INTO t VALUES (...), (...): a primary-key or foreign-key
\* violation aborts the statement and backs out its rows
RECURSIVE InsertMainRows(_, _, _, _)
InsertMainRows(m, t, rows, fk) ==
    IF rows = <<>> THEN [ok |-> TRUE, main |-> m]
    ELSE LET r == Head(rows)
             p == r[PrimaryKey(t)]
         IN  IF m[t][p] # NoRow \/ (fk /\ ~ForeignKeysHold(m, t, r))
             THEN [ok |-> FALSE, main |-> m]
             ELSE InsertMainRows([m EXCEPT ![t][p] = r], t, Tail(rows), fk)

\* r overlaid on row old in the columns cols
Overlay(old, r, cols) ==
    [c \in DOMAIN old \cup (cols \cap DOMAIN r) |->
        IF c \in cols \cap DOMAIN r THEN r[c] ELSE old[c]]

\* INSERT ... ON CONFLICT (pk) DO UPDATE SET c = excluded.c for c in cols,
\* or ON CONFLICT DO NOTHING when cols is empty
RECURSIVE UpsertMainRows(_, _, _, _, _)
UpsertMainRows(m, t, rows, cols, fk) ==
    IF rows = <<>> THEN [ok |-> TRUE, main |-> m]
    ELSE LET r == Head(rows)
             p == r[PrimaryKey(t)]
             new == IF m[t][p] = NoRow THEN r ELSE Overlay(m[t][p], r, cols)
         IN  IF fk /\ ~ForeignKeysHold(m, t, new)
             THEN [ok |-> FALSE, main |-> m]
             ELSE UpsertMainRows([m EXCEPT ![t][p] = new], t, Tail(rows), cols, fk)

\* ON DELETE CASCADE: the (table, key) pairs that go when the pairs D go
RECURSIVE CascadeClosure(_, _)
CascadeClosure(m, D) ==
    The({IF V = {} THEN D ELSE The({CascadeClosure(m, E) : E \in {D \cup V}}) :
         V \in {{x \in TableNames \X PKs :
                   /\ m[x[1]][x[2]] # NoRow
                   /\ x \notin D
                   /\ \E c \in ForeignKeyColumns(x[1]) \cap DOMAIN m[x[1]][x[2]] :
                         <<Schema[x[1]].columns[c].table, m[x[1]][x[2]][c]>> \in D}}})

\* DELETE FROM t WHERE pk IN (pks)
DeleteMainRows(m, t, pks, fk) ==
    The({[u \in TableNames |-> [p \in PKs |-> IF <<u, p>> \in D THEN NoRow ELSE m[u][p]]] :
         D \in {The({IF fk THEN CascadeClosure(m, D0) ELSE D0 :
                      D0 \in {{x \in {t} \X pks : m[t][x[2]] # NoRow}}})}})

RECURSIVE AppendShadowRows(_, _)
AppendShadowRows(sh, rows) ==
    IF rows = <<>> THEN sh
    ELSE LET r == Head(rows)
             p == r[VTABLE_COLUMN_ORIGINPK]
             v == Restrict(r, DOMAIN r \ {VTABLE_COLUMN_ORIGINPK})
         IN  AppendShadowRows([sh EXCEPT ![p] = Append(@, v)], Tail(rows))

UpdateShadowRows(sh, p, set) ==
    [sh EXCEPT ![p] = [i \in DOMAIN @ |-> Overlay(@[i], set, DOMAIN set)]]

\* variant: also drops the rows of the lowest key that still has some
CollectShadowRows_AndLowestKey(m, sh) ==
    LET live == {p \in PKs : m[p] # NoRow /\ sh[p] # <<>>}
    IN  [p \in PKs |-> IF m[p] = NoRow \/ (p \in live /\ \A r \in live : p <= r)
                        THEN <<>> ELSE sh[p]]

\* DELETE FROM shadow WHERE NOT EXISTS (SELECT 1 FROM t WHERE originPK = t.pk)
CollectShadowRows(m, sh) == [p \in PKs |-> IF m[p] = NoRow THEN <<>> ELSE sh[p]]

Part(s) == IF s.tbl.suffix = "_fts5" THEN "fts" ELSE IF s.tbl.suffix = "_vector" THEN "vec" ELSE "main"

\* one statement run by the engine: [ok, db]; a failed statement changes nothing
Exec(d, s, fk) ==
    LET t == s.tbl.base
        part == Part(s)
        fail == [ok |-> FALSE, db |-> d]
        done(x) == [ok |-> TRUE, db |-> x]
    IN  CASE s.k = "insert" /\ part = "main" ->
                The({IF r.ok THEN done([d EXCEPT !.main = r.main]) ELSE fail :
                     r \in {InsertMainRows(d.main, t, s.rows, fk)}})
          [] s.k = "insert" /\ part # "main" ->
                done([d EXCEPT ![part][t] = AppendShadowRows(@, s.rows)])
          [] s.k = "upsert" ->
                The({IF r.ok THEN done([d EXCEPT !.main = r.main]) ELSE fail :
                     r \in {UpsertMainRows(d.main, t, s.rows, s.cols, fk)}})
          [] s.k = "update" /\ part = "main" ->
                LET p == s.pks[1]
                    new == Overlay(d.main[t][p], s.rows[1], DOMAIN s.rows[1])
                IN  IF d.main[t][p] = NoRow THEN done(d)
                    ELSE IF fk /\ ~ForeignKeysHold(d.main, t, new) THEN fail
                    ELSE done([d EXCEPT !.main[t][p] = new])
          [] s.k = "update" /\ part # "main" ->
                \* UPDATE t SET WHERE ...: an empty SET list is a syntax error
                IF DOMAIN s.rows[1] = {} THEN fail
                ELSE done([d EXCEPT ![part][t] = UpdateShadowRows(@, s.pks[1], s.rows[1])])
          [] s.k = "delete" /\ part = "main" ->
                done([d EXCEPT !.main = DeleteMainRows(@, t, SeqToSet(s.pks), fk)])
          [] s.k = "delete" /\ part # "main" ->
                done([d EXCEPT ![part][t] =
                        [p \in PKs |-> IF p \in SeqToSet(s.pks) THEN <<>> ELSE @[p]]])
          [] s.k = "gc" -> done([d EXCEPT ![part][t] = CollectShadowRows(d.main[t], @)])
          [] OTHER -> done(d)

----------------------------------------------------------------------------
(* Values.  Plain strings and numbers are opaque small integers.  A        *)
(* full-text string is a sequence of characters, of which LDQUO, RDQUO,     *)
(* LSQUO, RSQUO are the smart quotes and QUOT, APOS their ASCII forms.  A   *)
(* vector is a one-dimensional typed array; Buffer is its raw buffer.       *)

Text(w) == IF w = 1 THEN <<"a">> ELSE <<"RDQUO", "b", "RDQUO">>

Buffer(w) == <<w>>

\* the row written by write w: every non-key column carries w
MkRow(t, pk, fkv, w) ==
    [c \in Columns(t) |->
        CASE c = PrimaryKey(t) -> pk
          [] Schema[t].columns[c].type = "foreignKey" -> fkv
          [] Schema[t].columns[c].type = "fullTextString" -> Text(w)
          [] OTHER -> w]

\* String.prototype.replace with a string pattern: the first occurrence only
RECURSIVE ReplaceFirst(_, _, _)
ReplaceFirst(str, from, to) ==
    IF str = <<>> THEN <<>>
    ELSE IF Head(str) = from THEN <<to>> \o Tail(str)
    ELSE <<Head(str)>> \o ReplaceFirst(Tail(str), from, to)

normalizeString(str) ==
    ReplaceFirst(ReplaceFirst(ReplaceFirst(ReplaceFirst(str,
        "RDQUO", "QUOT"), "LDQUO", "QUOT"), "RSQUO", "APOS"), "LSQUO", "APOS")

normalizeStringValues(values) == [c \in DOMAIN values |-> normalizeString(values[c])]

SerializedVectors(values) == [c \in DOMAIN values |-> Buffer(values[c])]

----------------------------------------------------------------------------
(* Command compilers: sqlite/cmdInsert.ts, cmdUpsert.ts, cmdDelete.ts,      *)
(* cmdUpdate.ts, cmdGC.ts.  Each returns the statements in execution order. *)

If(cond, stmts) == IF cond THEN stmts ELSE <<>>

MapRows(rows, F(_)) == [i \in DOMAIN rows |-> F(rows[i])]

FtsValues(t, row, normalize) ==
    ShadowValues(row[PrimaryKey(t)],
        IF normalize THEN normalizeStringValues(filterFullTextColumns(row, t))
        ELSE filterFullTextColumns(row, t))

VectorValues(t, row) ==
    ShadowValues(row[PrimaryKey(t)], SerializedVectors(filterAndSerializeVectorColumns(row, t)))

cmdInsert(t, row) ==
    <<Stmt("insert", MainTableName(t), <<filterNonVirtualColumns(row, t)>>, <<>>, {})>>
    \o If(getFullTextColumns(t) # {},
          <<Stmt("insert", getFTS5VirtualTableName(t), <<FtsValues(t, row, TRUE)>>, <<>>, {})>>)
    \o If(getVectorColumns(t) # {},
          <<Stmt("insert", getVectorVirtualTableName(t), <<VectorValues(t, row)>>, <<>>, {})>>)

cmdInsertMany(t, rows) ==
    LET main(r) == filterNonVirtualColumns(r, t)
        fts(r) == FtsValues(t, r, FALSE)
        vec(r) == VectorValues(t, r)
    IN  <<Stmt("insert", MainTableName(t), MapRows(rows, main), <<>>, {})>>
        \o If(getFullTextColumns(t) # {},
              <<Stmt("insert", getFTS5VirtualTableName(t), MapRows(rows, fts), <<>>, {})>>)
        \o If(getVectorColumns(t) # {},
              <<Stmt("insert", getVectorVirtualTableName(t), MapRows(rows, vec), <<>>, {})>>)

\* variant: every non-key main column is replaced on conflict, flagged or not
relevantUpdateOnConflictColumns_Unflagged(t) ==
    {c \in NonVirtualColumns(t) : c # PrimaryKey(t)}

relevantUpdateOnConflictColumns(t) ==
    {c \in NonVirtualColumns(t) :
        ~Schema[t].columns[c].noReplaceOnUpsert /\ c # PrimaryKey(t)}

cmdUpsertMany(t, rows) ==
    LET main(r) == filterNonVirtualColumns(r, t)
        fts(r) == FtsValues(t, r, TRUE)
        vec(r) == VectorValues(t, r)
        key(r) == r[PrimaryKey(t)]
        pks == MapRows(rows, key)
    IN  IF rows = <<>> THEN <<>>
        ELSE <<Stmt("upsert", MainTableName(t), MapRows(rows, main), <<>>,
                    relevantUpdateOnConflictColumns(t))>>
             \o If(getFullTextColumns(t) # {},
                   <<Stmt("delete", getFTS5VirtualTableName(t), <<>>, pks, {}),
                     Stmt("insert", getFTS5VirtualTableName(t), MapRows(rows, fts), <<>>, {})>>)
             \o If(getVectorColumns(t) # {},
                   <<Stmt("delete", getVectorVirtualTableName(t), <<>>, pks, {}),
                     Stmt("insert", getVectorVirtualTableName(t), MapRows(rows, vec), <<>>, {})>>)

\* variant: deletes from the main table only
cmdDeleteMany_MainOnly(t, pks) ==
    IF pks = <<>> THEN <<>>
    ELSE <<Stmt("delete", MainTableName(t), <<>>, pks, {})>>

\* variant: the main-table DELETE names the first key only
cmdDeleteMany_FirstKey(t, pks) ==
    IF pks = <<>> THEN <<>>
    ELSE <<Stmt("delete", MainTableName(t), <<>>, <<Head(pks)>>, {})>>
         \o If(getFullTextColumns(t) # {},
               <<Stmt("delete", getFTS5VirtualTableName(t), <<>>, pks, {})>>)
         \o If(getVectorColumns(t) # {},
               <<Stmt("delete", getVectorVirtualTableName(t), <<>>, pks, {})>>)

\* variant: the statements are compiled for an empty key list as well
cmdDeleteMany_NoSkip(t, pks) ==
    <<Stmt("delete", MainTableName(t), <<>>, pks, {})>>
    \o If(getFullTextColumns(t) # {},
          <<Stmt("delete", getFTS5VirtualTableName(t), <<>>, pks, {})>>)
    \o If(getVectorColumns(t) # {},
          <<Stmt("delete", getVectorVirtualTableName(t), <<>>, pks, {})>>)

cmdDeleteMany(t, pks) ==
    IF pks = <<>> THEN <<>>
    ELSE <<Stmt("delete", MainTableName(t), <<>>, pks, {})>>
         \o If(getFullTextColumns(t) # {},
               <<Stmt("delete", getFTS5VirtualTableName(t), <<>>, pks, {})>>)
         \o If(getVectorColumns(t) # {},
               <<Stmt("delete", getVectorVirtualTableName(t), <<>>, pks, {})>>)

\* the rows of an update that touch a full-text column, in order
RECURSIVE FtsUpdates(_, _)
FtsUpdates(t, rows) ==
    IF rows = <<>> THEN <<>>
    ELSE LET r == Head(rows)
         IN  If(DOMAIN filterFullTextColumns(r, t) # {},
                <<Stmt("update", getFTS5VirtualTableName(t), <<filterFullTextColumns(r, t)>>,
                       <<r[PrimaryKey(t)]>>, {})>>)
             \o FtsUpdates(t, Tail(rows))

cmdUpdateMany(t, rows) ==
    LET main(r) == Stmt("update", MainTableName(t), <<filterNonVirtualColumns(r, t)>>,
                        <<r[PrimaryKey(t)]>>, {})
        vec(r) == Stmt("update", getVectorVirtualTableName(t),
                       <<SerializedVectors(filterAndSerializeVectorColumns(r, t))>>,
                       <<r[PrimaryKey(t)]>>, {})
    IN  IF rows = <<>> THEN <<>>
        ELSE MapRows(rows, main)
             \o If(getFullTextColumns(t) # {}, FtsUpdates(t, rows))
             \o If(getVectorColumns(t) # {}, MapRows(rows, vec))

\* variant: collects the full-text shadow table only
cmdGarbageCollectSingleTable_FtsOnly(t) ==
    If(getFullTextColumns(t) # {}, <<Stmt("gc", getFTS5VirtualTableName(t), <<>>, <<>>, {})>>)

cmdGarbageCollectSingleTable(t) ==
    If(getFullTextColumns(t) # {}, <<Stmt("gc", getFTS5VirtualTableName(t), <<>>, <<>>, {})>>)
    \o If(getVectorColumns(t) # {}, <<Stmt("gc", getVectorVirtualTableName(t), <<>>, <<>>, {})>>)

\* Object.keys(schema): the tables in declaration order
TableOrder == <<"user", "post", "comment">>

RECURSIVE GarbageCollectTables(_)
GarbageCollectTables(ts) ==
    IF ts = <<>> THEN <<>>
    ELSE cmdGarbageCollectSingleTable(Head(ts)) \o GarbageCollectTables(Tail(ts))

cmdGarbageCollectAllTables == GarbageCollectTables(TableOrder)

----------------------------------------------------------------------------
(* Queries: types/query.ts.  A column reference is direct ("title"),         *)
(* foreign ("author.name") or a vector distance ("$distance(emb)").          *)

Direct(c) == [kind |-> "direct", column |-> c, remote |-> ""]

Foreign(c, rc) == [kind |-> "foreign", column |-> c, remote |-> rc]

Distance(c) == [kind |-> "distance", column |-> c, remote |-> ""]

Where(ref, operation, value) ==
    [type |-> "where", ref |-> ref, operation |-> operation, value |-> value, conditions |-> <<>>]

AllOf(conditions) ==
    [type |-> "all", ref |-> Direct(""), operation |-> "", value |-> 0, conditions |-> conditions]

AnyOf(conditions) ==
    [type |-> "any", ref |-> Direct(""), operation |-> "", value |-> 0, conditions |-> conditions]

NoCondition == [type |-> "null", ref |-> Direct(""), operation |-> "", value |-> 0, conditions |-> <<>>]

NoVectorQuery == [queryVectors |-> [c \in {} |-> 0], k |-> 0]

Query(t, condition, vectorQuery) ==
    [tableName |-> t, condition |-> condition, vectorQuery |-> vectorQuery]

\* coalesce(distance, 1e999): the distance of a row outside the k nearest
Infinity == 1000

\* row["$distance_<col>"] ?? null
NullDistance == -1

getVectorDistanceColumnName(c) == IF c = "emb" THEN "$distance_emb" ELSE "$distance_"

----------------------------------------------------------------------------
(* sqlite/selectors.ts and sqlite/cmdSelect.ts: what the compiled SELECT     *)
(* returns.                                                                  *)

Abs(x) == IF x < 0 THEN -x ELSE x

\* the vec0 distance between a stored buffer and the query vector
VecDistance(buf, v) == Abs(buf[1] - v)

\* rows of the vector shadow table, as <<originPK, rowid within the key>>
VecRows(d, t, c) ==
    UNION {{<<p, i>> : i \in {n \in DOMAIN d.vec[t][p] : c \in DOMAIN d.vec[t][p][n]}} : p \in PKs}

\* variant: the temp table holds every row of the shadow table, whatever k
vectorTempTable_AllRows(d, t, c, v, k) ==
    {[originPK |-> x[1], rowid |-> x[2], distance |-> VecDistance(d.vec[t][x[1]][x[2]][c], v)] :
        x \in {y \in VecRows(d, t, c) : d.main[t][y[1]] # NoRow}}

\* WHERE <col> MATCH ? AND k = <k>: the k nearest rows of the shadow table,
\* inner-joined to the main table
vectorTempTable(d, t, c, v, k) ==
    LET rows == VecRows(d, t, c)
        dist(x) == VecDistance(d.vec[t][x[1]][x[2]][c], v)
        before(x, y) == \/ dist(x) < dist(y)
                        \/ dist(x) = dist(y) /\ x[1] < y[1]
                        \/ dist(x) = dist(y) /\ x[1] = y[1] /\ x[2] < y[2]
        nearest == {x \in rows : Cardinality({y \in rows : before(y, x)}) < k}
    IN  {[originPK |-> x[1], rowid |-> x[2], distance |-> dist(x)] :
            x \in {y \in nearest : d.main[t][y[1]] # NoRow}}

\* the vector columns of the query that carry a query vector
QueriedVectorColumns(q) == getVectorColumns(q.tableName) \cap DOMAIN q.vectorQuery.queryVectors

\* processConditionForJoins: the foreign-key columns the condition refers to
RECURSIVE ForeignJoinsSeq(_)
ForeignJoins(cond) ==
    CASE cond.type = "where" -> IF cond.ref.kind = "foreign" THEN {cond.ref.column} ELSE {}
      [] cond.type \in {"all", "any"} -> ForeignJoinsSeq(cond.conditions)
      [] OTHER -> {}

ForeignJoinsSeq(cs) == IF cs = <<>> THEN {} ELSE ForeignJoins(Head(cs)) \cup ForeignJoinsSeq(Tail(cs))

\* A compiled condition (the expression handed to kysely's where): a node
\* with a left-hand side, an SQL operator and a right-hand side.  Throw is
\* the Error a handler raises, Undefined the value of a handler that falls
\* off its end without a return.
Node(node, lhs, sqlOperator, rhs) ==
    [node |-> node, lhs |-> lhs, op |-> sqlOperator, rhs |-> rhs]

Col(tableName, columnName) == [table |-> tableName, column |-> columnName]

Throw(message) == Node("throw", Col("", ""), message, 0)

Undefined == Node("undefined", Col("", ""), "", 0)

\* characters of a query string: a letter, the space and another whitespace
WhitespaceChars == {"SP", "TAB"}

\* str.split(sep): the pieces between the occurrences of the character sep
RECURSIVE Split(_, _)
Split(str, sep) ==
    IF str = <<>> THEN << <<>> >>
    ELSE The({IF Head(str) = sep THEN << <<>> >> \o rest
              ELSE << <<Head(str)>> \o Head(rest) >> \o Tail(rest) :
              rest \in {Split(Tail(str), sep)}})

\* words.join(sep)
RECURSIVE Join(_, _)
Join(words, sep) ==
    IF words = <<>> THEN <<>>
    ELSE IF Len(words) = 1 THEN Head(words)
    ELSE Head(words) \o <<sep>> \o Join(Tail(words), sep)

\* value.split(" ").filter(Boolean).map(word => `"${word}"`).join(" ")
QuoteWords(value) ==
    LET words == SelectSeq(Split(value, "SP"), LAMBDA w : w # <<>>)
    IN  Join([i \in DOMAIN words |-> <<"QUOT">> \o words[i] \o <<"QUOT">>], "SP")

\* value.replace(/\s/g, "").split("").join("%")
InterleavePercent(value) ==
    LET chars == SelectSeq(value, LAMBDA ch : ch \notin WhitespaceChars)
    IN  Join([i \in DOMAIN chars |-> <<chars[i]>>], "%")

\* parseCondition and getColumnInfo: the column a reference resolves to
getColumnInfo(t, ref) ==
    IF ref.kind = "foreign"
    THEN LET target == Schema[t].columns[ref.column].table
         IN  [tableName |-> target, columnName |-> ref.remote,
              columnType |-> Schema[target].columns[ref.remote]]
    ELSE [tableName |-> t, columnName |-> ref.column,
          columnType |-> Schema[t].columns[ref.column]]

handleArrayOperation(column, operator, value) ==
    LET each == Col(column.tableName, column.columnName)
    IN  CASE operator = "contains" -> Node("exists json_each", each, "=", value)
          [] operator = "doesNotContain" -> Node("not exists json_each", each, "=", value)
          [] operator = "containsAllOf" -> Node("and exists json_each", each, "=", value)
          [] operator = "containsAnyOf" -> Node("exists json_each", each, "in", value)
          [] operator = "nonEmpty" -> Node("exists json_each", each, "", 0)
          [] operator = "isEmpty" -> Node("not exists json_each", each, "", 0)
          [] OTHER -> Throw("Unsupported array operator")

\* originPK in (select originPK from <table>_fts5 where <column> <op> <rhs>)
handleFullTextOperation(column, operator, value) ==
    LET shadow == Col(getFTS5VirtualTableName(column.tableName), column.columnName)
    IN  IF operator = "matches"
        THEN IF Len(value) >= 3
             THEN Node("originPK in", shadow, "match", QuoteWords(value))
             ELSE Node("originPK in", shadow, "like", value \o <<"%">>)
        ELSE IF operator = "flexiblyMatches"
        THEN Node("originPK in", shadow, "like", <<"%">> \o InterleavePercent(value) \o <<"%">>)
        ELSE Undefined

handleVectorDistanceOperation(column, operator, value) ==
    Node("binary", Col("", getVectorDistanceColumnName(column.columnName)),
         IF operator = "lessThan" THEN "<" ELSE ">", value)

operatorMap ==
    [equals |-> "=", notEquals |-> "!=", greaterThan |-> ">", lessThan |-> "<",
     greaterThanOrEqual |-> ">=", lessThanOrEqual |-> "<=", in |-> "in", notIn |-> "not in"]

handleColumnOperation(column, operator, value) ==
    LET type == column.columnType.type
        full == Col(column.tableName, column.columnName)
    IN  CASE type = "stringArray" -> handleArrayOperation(column, operator, value)
          [] type = "fullTextString" -> handleFullTextOperation(column, operator, value)
          [] type = "vector" -> handleVectorDistanceOperation(column, operator, value)
          [] OTHER ->
             CASE operator = "equalsAnyOf" -> Node("binary", full, "in", value)
               [] operator = "notEqualsAnyOf" -> Node("binary", full, "not in", value)
               [] operator \in {"contains", "notContains"} ->
                    IF type # "string"
                    THEN Throw("Only string columns can be used with the contains operator")
                    ELSE Node(IF operator = "contains" THEN "lower" ELSE "not lower",
                              full, "like", value)
               [] operator = "flexiblyMatches" ->
                    IF type # "string"
                    THEN Throw("Only string columns can be used with the flexiblyMatches operator")
                    ELSE Node("lower", full, "like", value)
               [] operator \in DOMAIN operatorMap -> Node("binary", full, operatorMap[operator], value)
               [] OTHER -> Throw("Unknown operator")

conditionToWhere(t, cond) ==
    handleColumnOperation(getColumnInfo(t, cond.ref), cond.operation, cond.value)

\* whether a joined row j ([main, fts, dist]) satisfies the compiled leaf
\* condition; the selects of the model carry comparisons only
Compare(value, where) ==
    /\ where.node = "binary"
    /\ CASE where.op = "=" -> value = where.rhs
          [] where.op = "!=" -> value # where.rhs
          [] where.op = "in" -> value \in where.rhs
          [] where.op = "not in" -> value \notin where.rhs
          [] where.op = ">" -> value > where.rhs
          [] where.op = "<" -> value < where.rhs
          [] where.op = ">=" -> value >= where.rhs
          [] where.op = "<=" -> value <= where.rhs

ReferencedValue(d, t, j, ref) ==
    CASE ref.kind = "foreign" ->
             d.main[Schema[t].columns[ref.column].table][j.main[ref.column]][ref.remote]
      [] ref.kind = "distance" -> j.dist[ref.column]
      [] OTHER -> j.main[ref.column]

WhereHolds(d, t, j, cond) ==
    Compare(ReferencedValue(d, t, j, cond.ref), conditionToWhere(t, cond))

RECURSIVE processConditions(_, _, _, _, _)
processCondition(d, t, j, cond) ==
    CASE cond.type = "where" -> WhereHolds(d, t, j, cond)
      [] cond.type = "all" -> processConditions(d, t, j, cond.conditions, TRUE)
      [] cond.type = "any" -> processConditions(d, t, j, cond.conditions, FALSE)
      [] OTHER -> TRUE

\* eb.and / eb.or over the children: conj is TRUE for and, FALSE for or
processConditions(d, t, j, cs, conj) ==
    IF cs = <<>> THEN conj
    ELSE IF conj
         THEN processCondition(d, t, j, Head(cs)) /\ processConditions(d, t, j, Tail(cs), conj)
         ELSE processCondition(d, t, j, Head(cs)) \/ processConditions(d, t, j, Tail(cs), conj)

\* deserializeSpecialColumns (database.ts) of a joined row
deserializeSpecialColumns(t, j, q) ==
    LET plain == NonVirtualColumns(t) \cup DOMAIN j.fts
        dcols == {getVectorDistanceColumnName(c) : c \in getVectorColumns(t)}
        vcol(n) == CHOOSE c \in getVectorColumns(t) : getVectorDistanceColumnName(c) = n
    IN  [c \in plain \cup dcols |->
            IF c \in dcols
            THEN IF vcol(c) \in DOMAIN j.dist THEN j.dist[vcol(c)] ELSE NullDistance
            ELSE IF c \in DOMAIN j.fts THEN j.fts[c] ELSE j.main[c]]

\* the joined rows of table t for primary key p: main x fts (inner or left
\* join) x vector temp table (left join, coalesced to Infinity)
JoinedRows(d, q, p, innerFts) ==
    LET t == q.tableName
        hasFts == getFullTextColumns(t) # {}
        ftsSide == IF ~hasFts THEN <<NoRow>>
                   ELSE IF d.fts[t][p] = <<>> THEN (IF innerFts THEN <<>> ELSE <<NoRow>>)
                   ELSE d.fts[t][p]
        qcols == QueriedVectorColumns(q)
        \* the model's schemas have at most one vector column
        temp == IF qcols = {} THEN {}
                ELSE LET c == CHOOSE c \in qcols : TRUE
                     IN  {m \in vectorTempTable(d, t, c, q.vectorQuery.queryVectors[c],
                                                q.vectorQuery.k) : m.originPK = p}
        dists == IF qcols = {} THEN <<NoRow>>
                 ELSE LET c == CHOOSE c \in qcols : TRUE
                      IN  IF temp = {} THEN <<[x \in {c} |-> Infinity]>>
                          ELSE [i \in 1..Cardinality(temp) |->
                                  [x \in {c} |->
                                     (CHOOSE m \in temp :
                                        Cardinality({n \in temp : n.rowid < m.rowid}) = i - 1).distance]]
    IN  IF d.main[t][p] = NoRow THEN <<>>
        ELSE [n \in 1..(Len(ftsSide) * Len(dists)) |->
                [main |-> d.main[t][p],
                 fts |-> ftsSide[((n - 1) \div Len(dists)) + 1],
                 dist |-> dists[((n - 1) % Len(dists)) + 1]]]

RECURSIVE SelectFrom(_, _, _)
SelectFrom(d, q, p) ==
    IF p > MaxPK THEN <<>>
    ELSE LET t == q.tableName
             joins == ForeignJoins(q.condition)
             joined(j) == \A c \in joins : d.main[Schema[t].columns[c].table][j.main[c]] # NoRow
             where(j) == joined(j) /\ processCondition(d, t, j, q.condition)
             out(j) == deserializeSpecialColumns(t, j, q)
         IN  MapRows(SelectSeq(JoinedRows(d, q, p, TRUE), where), out) \o SelectFrom(d, q, p + 1)

\* Database.select of a query (not suppressed, no limit)
Select(d, q) == SelectFrom(d, q, 1)

\* Database.selectByPrimaryKeys: WHERE pk IN (...), left join on the full-text shadow
RECURSIVE SelectKeysFrom(_, _, _, _)
SelectKeysFrom(d, t, pks, p) ==
    IF p > MaxPK THEN <<>>
    ELSE LET q == Query(t, NoCondition, NoVectorQuery)
             out(j) == deserializeSpecialColumns(t, j, q)
         IN  (IF p \in pks THEN MapRows(JoinedRows(d, q, p, FALSE), out) ELSE <<>>)
             \o SelectKeysFrom(d, t, pks, p + 1)

selectByPrimaryKeys(d, t, pks) == SelectKeysFrom(d, t, SeqToSet(pks), 1)

----------------------------------------------------------------------------
(* The sqlite3 connection adapter: CachedQueryExecutor and dbConnection.    *)
(* A connection is [db, durable, inTxn]; a call returns it with ok and n,   *)
(* the number of statements that reached the engine.                        *)

\* execute(sql, parameters): one statement, committed at once unless a
\* transaction is open
execute(c, s, fk) ==
    The({[ok |-> r.ok, n |-> 1, db |-> r.db,
          durable |-> IF c.inTxn THEN c.durable ELSE r.db, inTxn |-> c.inTxn] :
         r \in {Exec(c.db, s, fk)}})

\* for (const command of commands) await execute(...): stops at the first error
RECURSIVE RunStatements(_, _, _)
RunStatements(c, stmts, fk) ==
    IF stmts = <<>> THEN [ok |-> TRUE, n |-> 0, db |-> c.db, durable |-> c.durable, inTxn |-> c.inTxn]
    ELSE The({IF ~r.ok THEN r
              ELSE The({[rest EXCEPT !.n = @ + 1] : rest \in {RunStatements(r, Tail(stmts), fk)}}) :
              r \in {execute(c, Head(stmts), fk)}})

\* executeManyInTransaction: BEGIN TRANSACTION, the statements, COMMIT.
\* BEGIN fails inside an open transaction; an error leaves before COMMIT.
executeManyInTransaction(c, stmts, fk) ==
    IF c.inTxn THEN [ok |-> FALSE, n |-> 0, db |-> c.db, durable |-> c.durable, inTxn |-> TRUE]
    ELSE The({IF r.ok THEN [r EXCEPT !.durable = r.db, !.inTxn = FALSE] ELSE r :
              r \in {RunStatements([c EXCEPT !.inTxn = TRUE], stmts, fk)}})

----------------------------------------------------------------------------
(* The Database facade (database.ts), one call at a time.                   *)

\* const batchSize = 1024 (insertRows), opts?.batchSize ?? 1024 (upsertRows)
DefaultBatchSize == 1024

\* const batchSize = 1204 (deleteWhere)
DeleteBatchSize == 1204

Min(a, b) == IF a < b THEN a ELSE b

\* variant: the slice runs to the end of the rows
Slice_ToEnd(rows, i, batchSize) == SubSeq(rows, i + 1, Len(rows))

\* rows.slice(i, i + batchSize), i counted from 0
Slice(rows, i, batchSize) == SubSeq(rows, i + 1, Min(Len(rows), i + batchSize))

\* for (let i = 0; i < rows.length; i += batchSize): one executeInTransaction
\* per batch; sent lists the batches handed over, the failed one included
RECURSIVE RunBatches(_, _, _, _, _, _, _)
RunBatches(c, upsert, t, rows, batchSize, i, fk) ==
    IF i >= Len(rows)
    THEN [ok |-> TRUE, sent |-> <<>>, db |-> c.db, durable |-> c.durable, inTxn |-> c.inTxn]
    ELSE The({The({The({
            IF ~r.ok
            THEN [ok |-> FALSE, sent |-> <<batch>>, db |-> r.db, durable |-> r.durable,
                  inTxn |-> r.inTxn]
            ELSE The({[rest EXCEPT !.sent = <<batch>> \o @] :
                      rest \in {RunBatches(r, upsert, t, rows, batchSize, i + batchSize, fk)}}) :
            r \in {executeManyInTransaction(c, commands, fk)}}) :
            commands \in {IF upsert THEN cmdUpsertMany(t, batch) ELSE cmdInsertMany(t, batch)}}) :
            batch \in {Slice(rows, i, batchSize)}})

\* deleteWhere's loop: deleteRows(where.tableName, batch) per batch of keys
RECURSIVE DeleteBatches(_, _, _, _, _)
DeleteBatches(c, t, pks, i, fk) ==
    IF i >= Len(pks)
    THEN [ok |-> TRUE, n |-> 0, db |-> c.db, durable |-> c.durable, inTxn |-> c.inTxn]
    ELSE The({The({
            IF ~r.ok THEN r
            ELSE The({[rest EXCEPT !.n = @ + r.n] :
                      rest \in {DeleteBatches(r, t, pks, i + DeleteBatchSize, fk)}}) :
            r \in {RunStatements(c, commands, fk)}}) :
            commands \in {cmdDeleteMany(t, Slice(pks, i, DeleteBatchSize))}})

\* variant: a key the Map lacks is left as it is and the row is kept
resolveForeignKeys_KeepsDangling(d, t, rows) ==
    LET cols == ForeignKeyColumns(t)
        target(c) == Schema[t].columns[c].table
        items(c) == selectByPrimaryKeys(d, target(c), MapRows(rows, LAMBDA r : r[c]))
        has(c, k) == \E i \in DOMAIN items(c) : items(c)[i][PrimaryKey(target(c))] = k
        get(c, k) == LET I == {i \in DOMAIN items(c) : items(c)[i][PrimaryKey(target(c))] = k}
                     IN  items(c)[CHOOSE i \in I : \A j \in I : j <= i]
        output(r) == [c \in DOMAIN r |-> IF c \in cols /\ has(c, r[c]) THEN get(c, r[c]) ELSE r[c]]
    IN  MapRows(rows, output)

\* new Map(items.map(r => [r[pk], r])): whether the Map has key k, and the
\* item it holds for k (the last item of a key wins)
MapHas(items, pk, k) == \E i \in DOMAIN items : items[i][pk] = k

MapGet(items, pk, k) ==
    items[CHOOSE i \in DOMAIN items :
            /\ items[i][pk] = k
            /\ \A j \in DOMAIN items : items[j][pk] = k => j <= i]

\* the rows with every foreign key replaced by the item selected for it;
\* items[c] are the rows selected for column c
ResolveWith(items, t, rows) ==
    LET pk(c) == PrimaryKey(Schema[t].columns[c].table)
        resolved(r) == \A c \in DOMAIN items : MapHas(items[c], pk(c), r[c])
        output(r) == [c \in DOMAIN r |->
                        IF c \in DOMAIN items THEN MapGet(items[c], pk(c), r[c]) ELSE r[c]]
    IN  MapRows(SelectSeq(rows, resolved), output)

\* resolveForeignKeys: one selectByPrimaryKeys per foreign-key column, a Map
\* from key to item per column, then the rows with every key replaced; a row
\* with a key the Map lacks is dropped
resolveForeignKeys(d, t, rows) ==
    ResolveWith([c \in ForeignKeyColumns(t) |->
                    selectByPrimaryKeys(d, Schema[t].columns[c].table,
                                        MapRows(rows, LAMBDA r : r[c]))],
                t, rows)

RECURSIVE SumLen(_, _)
SumLen(f, S) == IF S = {} THEN 0 ELSE LET x == CHOOSE y \in S : TRUE
                                      IN  Len(f[x[1]][x[2]]) + SumLen(f, S \ {x})

\* number of rows in all tables, main and shadow
RowCount(d) ==
    Cardinality({x \in TableNames \X PKs : d.main[x[1]][x[2]] # NoRow})
    + SumLen(d.fts, TableNames \X PKs) + SumLen(d.vec, TableNames \X PKs)

Conn == [db |-> db, durable |-> durable, inTxn |-> inTxn]

\* the connection as the call leaves it, and the call's record
Outcome(r, record) ==
    /\ db' = r.db
    /\ durable' = r.durable
    /\ inTxn' = r.inTxn
    /\ lastOp' = record
    /\ nOps' = nOps + 1
    /\ UNCHANGED <<fkOn, mutexVars>>

Returns(r, record) == Outcome(r, record) /\ UNCHANGED deleted

\* the same for a call that sent DELETE statements for the keys pks of table t
ReturnsDeleting(r, record, t, pks) ==
    /\ Outcome(r, record)
    /\ deleted' = IF pks = <<>> THEN deleted ELSE deleted \cup {t}

----------------------------------------------------------------------------
(* SpecStore: the facade's operations, each run to completion.              *)

\* the tables callers write to; comment rows are only passed to resolveForeignKeys
WrittenTables == {"user", "post"}

ForeignKeyValues(t) == IF ForeignKeyColumns(t) = {} THEN {0} ELSE PKs

RowsFor(t) == {MkRow(t, p, a, w) : p \in PKs, a \in ForeignKeyValues(t), w \in Vals}

\* up to MaxRows rows of one write
RowSeqsFor(t) ==
    UNION {{[i \in 1..n |-> MkRow(t, ks[i], as[i], w)] :
                ks \in [1..n -> PKs], as \in [1..n -> ForeignKeyValues(t)], w \in Vals} :
           n \in 0..MaxRows}

\* the column sets of update payloads (the primary key comes on top)
UpdateShapes(t) ==
    IF t = "post" THEN {{"title"}, {"content"}, {"emb"}, {"author", "emb"}, {"title", "content", "emb"}}
    ELSE {{"name"}}

UpdatePayloadSeqsFor(t) ==
    {<<>>} \cup {<<Restrict(MkRow(t, p, a, w), {PrimaryKey(t)} \cup cols)>> :
                    p \in PKs, a \in ForeignKeyValues(t), w \in Vals, cols \in UpdateShapes(t)}

InputRowsByTable == [t \in WrittenTables |-> RowsFor(t)]

InputRowSeqsByTable == [t \in WrittenTables |-> RowSeqsFor(t)]

UpdatePayloadSeqsByTable == [t \in WrittenTables |-> UpdatePayloadSeqsFor(t)]

InputRows(t) == InputRowsByTable[t]

InputRowSeqs(t) == InputRowSeqsByTable[t]

UpdatePayloadSeqs(t) == UpdatePayloadSeqsByTable[t]

KeySeqs == {<<>>} \cup {<<p>> : p \in PKs} \cup {s \in PKs \X PKs : s[1] # s[2]}

BatchSizes == {1, DefaultBatchSize}

Queries ==
    {Query("post", NoCondition, NoVectorQuery), Query("user", NoCondition, NoVectorQuery)}
    \cup {Query("post", Where(Direct("title"), "equals", v), NoVectorQuery) : v \in Vals}
    \cup {Query("post", Where(Foreign("author", "name"), "equals", v), NoVectorQuery) : v \in Vals}
    \cup {Query("user", Where(Direct("name"), "notEquals", v), NoVectorQuery) : v \in Vals}
    \cup {Query("post", Where(Distance("emb"), "lessThan", MaxVal),
                [queryVectors |-> [c \in {"emb"} |-> v], k |-> 1]) : v \in Vals}

CommentRows == {[id |-> i, post |-> a, user |-> b] : i \in PKs, a \in PKs, b \in PKs}

CommentRowSeqs ==
    UNION {{[i \in 1..n |-> [id |-> i, post |-> as[i], user |-> bs[i]]] :
                as \in [1..n -> PKs], bs \in [1..n -> PKs]} : n \in 0..MaxRows}

AllTables == "*"

InsertRow(t, values) ==
    /\ nOps < MaxOps
    /\ \E commands \in {cmdInsert(t, values)} :
       \E r \in {RunStatements(Conn, commands, fkOn)} :
           Returns(r, [kind |-> "insertRow", table |-> t, rows |-> <<values>>, ok |-> r.ok])

InsertRows(t, rows) ==
    /\ nOps < MaxOps
    /\ \E r \in {RunBatches(Conn, FALSE, t, rows, DefaultBatchSize, 0, fkOn)} :
           Returns(r, [kind |-> "insertRows", table |-> t, rows |-> rows, ok |-> r.ok,
                       batchSize |-> DefaultBatchSize, sent |-> r.sent, open |-> inTxn])

UpsertRows(t, rows, batchSize) ==
    /\ nOps < MaxOps
    /\ \E r \in {RunBatches(Conn, TRUE, t, rows, batchSize, 0, fkOn)} :
           Returns(r, [kind |-> "upsertRows", table |-> t, rows |-> rows, ok |-> r.ok,
                       batchSize |-> batchSize, sent |-> r.sent, open |-> inTxn,
                       fresh |-> {p \in PKs : db.main[t][p] = NoRow}])

UpdateRows(t, rows) ==
    /\ nOps < MaxOps
    /\ \E commands \in {cmdUpdateMany(t, rows)} :
       \E r \in {RunStatements(Conn, commands, fkOn)} :
           Returns(r, [kind |-> "updateRows", table |-> t, rows |-> rows, ok |-> r.ok])

DeleteRows(t, pks) ==
    /\ nOps < MaxOps
    /\ \E commands \in {cmdDeleteMany(t, pks)} :
       \E r \in {RunStatements(Conn, commands, fkOn)} :
           ReturnsDeleting(r, [kind |-> "deleteRows", table |-> t, pks |-> pks, ok |-> r.ok,
                               sent |-> IF r.ok THEN r.n ELSE r.n + 1],
                           t, pks)

DeleteWhere(q) ==
    /\ nOps < MaxOps
    /\ \E relevantRows \in {Select(db, q)} :
       \E pks \in {MapRows(relevantRows, LAMBDA row : row[PrimaryKey(q.tableName)])} :
       \E r \in {DeleteBatches(Conn, q.tableName, pks, 0, fkOn)} :
           ReturnsDeleting(r, [kind |-> "deleteWhere", table |-> q.tableName, query |-> q,
                               pks |-> pks, ok |-> r.ok], q.tableName, pks)

GarbageCollect(table) ==
    /\ nOps < MaxOps
    /\ LET \* rows removed by the run just before this one, when that was a
           \* garbageCollect of the same tables; -1 otherwise
           prior == IF lastOp.kind = "garbageCollect" /\ lastOp.table \in {table, AllTables}
                    THEN lastOp.removed ELSE -1
       IN  \E commands \in {IF table = AllTables THEN cmdGarbageCollectAllTables
                              ELSE cmdGarbageCollectSingleTable(table)} :
           \E r \in {RunStatements(Conn, commands, fkOn)} :
           Returns(r, [kind |-> "garbageCollect", table |-> table, ok |-> r.ok,
                       removed |-> RowCount(db) - RowCount(r.db), prior |-> prior,
                       before |-> db,
                       \* what is on disk before the loop and after each await of it
                       disk |-> [k \in 1..(Len(commands) + 1) |->
                                   RunStatements(Conn, SubSeq(commands, 1, k - 1), fkOn).durable]])

ResolveForeignKeys(t, rows) ==
    /\ nOps < MaxOps
    /\ Returns([db |-> db, durable |-> durable, inTxn |-> inTxn],
               [kind |-> "resolveForeignKeys", table |-> t, rows |-> rows, ok |-> TRUE,
                result |-> resolveForeignKeys(db, t, rows)])

\* queries for select: the k nearest posts to a vector, with and without a
\* threshold on the distance
VectorQueries ==
    {Query("post", cond, [queryVectors |-> [c \in {"emb"} |-> v], k |-> k]) :
        v \in Vals, k \in 1..MaxPK,
        cond \in {NoCondition} \cup {Where(Distance("emb"), "lessThan", th) : th \in Vals}}

\* and(...) / or(...) of the query builder over comparisons of post columns,
\* with no, one or two children, and nested
CompositeQueries ==
    LET a == Where(Direct("title"), "equals", 1)
        b == Where(Direct("id"), "equals", 1)
    IN  {Query("post", cond, NoVectorQuery) :
            cond \in {AllOf(<<>>), AnyOf(<<>>), AllOf(<<a>>), AnyOf(<<a>>),
                      AllOf(<<a, b>>), AnyOf(<<a, b>>),
                      AllOf(<<a, AnyOf(<<>>)>>), AnyOf(<<b, AllOf(<<>>)>>),
                      AllOf(<<AnyOf(<<a, b>>), b>>)}}

SelectQueries == Queries \cup VectorQueries \cup CompositeQueries

\* rows.slice(0, limit) of LIMIT <limit>; limit 0 is no limit
Limit(rows, limit) ==
    IF limit = 0 \/ Len(rows) <= limit THEN rows ELSE SubSeq(rows, 1, limit)

\* variant: select runs the query of a suppressed builder as well
select_IgnoringSuppress(d, q, suppressed, limit) ==
    [rows |-> Limit(Select(d, q), limit), sent |-> 1]

\* Database.select of a query or of a builder (suppressed or not): the rows
\* returned and the number of statements sent to the connection
select(d, q, suppressed, limit) ==
    IF suppressed THEN [rows |-> <<>>, sent |-> 0]
    ELSE [rows |-> Limit(Select(d, q), limit), sent |-> 1]

\* result[0] ?? null
Null == "null"

\* Database.select: the rows of the compiled SELECT; the tables are not written
SelectRows(q, suppressed) ==
    /\ nOps < MaxOps
    /\ \E r \in {select(db, q, suppressed, 0)} :
        Returns([db |-> db, durable |-> durable, inTxn |-> inTxn],
                [kind |-> "select", table |-> q.tableName, query |-> q, ok |-> TRUE,
                 suppressed |-> suppressed, result |-> r.rows, sent |-> r.sent])

\* Database.selectOne
SelectOne(q, suppressed) ==
    /\ nOps < MaxOps
    /\ \E r \in {select(db, q, suppressed, 1)} :
        Returns([db |-> db, durable |-> durable, inTxn |-> inTxn],
                [kind |-> "selectOne", table |-> q.tableName, query |-> q, ok |-> TRUE,
                 suppressed |-> suppressed, sent |-> r.sent,
                 result |-> IF r.rows = <<>> THEN Null ELSE r.rows[1]])

\* Database.exists
Exists(q, suppressed) ==
    /\ nOps < MaxOps
    /\ \E r \in {select(db, q, suppressed, 1)} :
        Returns([db |-> db, durable |-> durable, inTxn |-> inTxn],
                [kind |-> "exists", table |-> q.tableName, query |-> q, ok |-> TRUE,
                 suppressed |-> suppressed, sent |-> r.sent,
                 result |-> Len(r.rows) > 0])

\* users 1..MaxPK and one post per user, written through insertRows
ConnAfter(r) == [db |-> r.db, durable |-> r.durable, inTxn |-> r.inTxn]

ConnOn(d) == [db |-> d, durable |-> d, inTxn |-> FALSE]

Seeded ==
    LET users == [i \in 1..MaxPK |-> MkRow("user", i, 0, 1)]
        posts == [i \in 1..MaxPK |-> MkRow("post", i, i, ((i - 1) % MaxVal) + 1)]
    IN  RunBatches(ConnAfter(RunBatches(ConnOn(EmptyDB), FALSE, "user", users,
                                        DefaultBatchSize, 0, TRUE)),
                   FALSE, "post", posts, DefaultBatchSize, 0, TRUE).db

\* Seeded after deleteRows("user", [1]) on an engine that enforces foreign keys
OrphanedFrom(seeded) ==
    RunStatements(ConnOn(seeded), cmdDeleteMany("user", <<1>>), TRUE).db

Orphaned == OrphanedFrom(Seeded)

NoCall == [kind |-> "none"]

MutexIdle ==
    /\ pc = <<>> /\ op = <<>> /\ sent = <<>>
    /\ depth = 0 /\ queue = <<>> /\ held = FALSE /\ log = <<>>
    /\ raised = <<>> /\ outcome = <<>> /\ emitted = <<>> /\ inner = <<>>

InitStore ==
    /\ fkOn \in BOOLEAN
    /\ \E seeded \in {Seeded} : \E orphaned \in {OrphanedFrom(seeded)} :
          /\ db \in {EmptyDB, seeded} \cup (IF fkOn THEN {orphaned} ELSE {})
          /\ deleted = IF db = orphaned THEN {"user"} ELSE {}
    /\ durable = db
    /\ inTxn = FALSE
    /\ lastOp = NoCall
    /\ nOps = 0
    /\ MutexIdle

NextStore ==
    \/ \E t \in WrittenTables : \E values \in InputRows(t) : InsertRow(t, values)
    \/ \E t \in WrittenTables : \E rows \in InputRowSeqs(t) : InsertRows(t, rows)
    \/ \E t \in WrittenTables : \E rows \in InputRowSeqs(t) : \E b \in BatchSizes : UpsertRows(t, rows, b)
    \/ \E t \in WrittenTables : \E rows \in UpdatePayloadSeqs(t) : UpdateRows(t, rows)
    \/ \E t \in WrittenTables : \E pks \in KeySeqs : DeleteRows(t, pks)
    \/ \E q \in Queries : DeleteWhere(q)
    \/ \E table \in {"post", AllTables} : GarbageCollect(table)
    \/ \E rows \in CommentRowSeqs : ResolveForeignKeys("comment", rows)
    \/ \E q \in SelectQueries : SelectRows(q, FALSE)
    \/ \E q \in Queries : SelectRows(q, TRUE)
    \/ \E q \in Queries : \E suppressed \in BOOLEAN : SelectOne(q, suppressed)
    \/ \E q \in Queries : \E suppressed \in BOOLEAN : Exists(q, suppressed)

SpecStore == InitStore /\ [][NextStore]_vars

----------------------------------------------------------------------------
(* SpecConn: the connection adapter called directly with statement lists.   *)

\* statement lists as the compilers produce them, and two of them in a row
CompiledLists ==
    {<<>>}
    \cup {cmdInsert("user", r) : r \in InputRows("user")}
    \cup {cmdInsert("post", r) : r \in InputRows("post")}
    \cup {cmdDeleteMany(t, <<p>>) : t \in WrittenTables, p \in PKs}

StatementLists == {a \o b : a \in CompiledLists, b \in CompiledLists}

Execute(s) ==
    /\ nOps < MaxOps
    /\ \E r \in {execute(Conn, s, fkOn)} :
           Returns(r, [kind |-> "execute", statements |-> <<s>>, ok |-> r.ok, n |-> r.n])

ExecuteInTransaction(queries) ==
    /\ nOps < MaxOps
    /\ \E r \in {executeManyInTransaction(Conn, queries, fkOn)} :
           Returns(r, [kind |-> "executeInTransaction", statements |-> queries,
                       ok |-> r.ok, n |-> r.n])

InitConn ==
    /\ fkOn \in BOOLEAN
    /\ db = EmptyDB
    /\ durable = db
    /\ inTxn = FALSE
    /\ lastOp = NoCall
    /\ nOps = 0
    /\ deleted = {}
    /\ MutexIdle

NextConn ==
    \/ \E l \in CompiledLists \ {<<>>} : Execute(Head(l))
    \/ \E queries \in StatementLists : ExecuteInTransaction(queries)

SpecConn == InitConn /\ [][NextConn]_vars

----------------------------------------------------------------------------
(* SpecCompile: the compilation of one leaf condition, for every kind of    *)
(* column, operator and value.                                              *)

MaxLen == 3

\* the operations types/query.ts declares for a column of each type
PrimitiveColumnOperations == {"equals", "notEquals", "equalsAnyOf", "notEqualsAnyOf"}

StringColumnOperations ==
    {"contains", "notContains", "containsAnyOf", "notContainsAnyOf", "flexiblyMatches"}

NumberColumnOperations == {"greaterThan", "lessThan", "greaterThanOrEqual", "lessThanOrEqual"}

FullTextColumnOperations == {"matches", "notMatches", "flexiblyMatches"}

ArrayColumnOperations ==
    {"contains", "doesNotContain", "partiallyContains", "containsAllOf", "containsAnyOf",
     "nonEmpty", "isEmpty"}

VectorColumnOperations == {"lessThan", "greaterThan"}

WhereOperations(type) ==
    CASE type = "number" -> PrimitiveColumnOperations \cup NumberColumnOperations
      [] type = "boolean" -> PrimitiveColumnOperations
      [] type = "string" -> PrimitiveColumnOperations \cup StringColumnOperations
      [] type = "fullTextString" -> FullTextColumnOperations
      [] type = "stringArray" -> ArrayColumnOperations
      [] type = "vector" -> VectorColumnOperations
      [] OTHER -> {}

ColumnKinds == {"number", "boolean", "string", "stringArray", "fullTextString", "vector"}

\* a resolved column of each kind
ColumnInfos ==
    {[tableName |-> "post", columnName |-> "c", columnType |-> DBTypeOf(type)] : type \in ColumnKinds}

\* the declared operations, the two operatorMap adds, and one nobody declares
Operations ==
    UNION {WhereOperations(type) : type \in ColumnKinds} \cup {"in", "notIn", "like"}

Chars == {"a"} \cup WhitespaceChars

Strings == UNION {[1..n -> Chars] : n \in 0..MaxLen}

\* query values: strings for a full-text column, an opaque value otherwise
ConditionValues(column) == IF column.columnType.type = "fullTextString" THEN Strings ELSE {1}

HandleColumnOperation(column, operator, value) ==
    /\ lastOp = NoCall
    /\ lastOp' = [kind |-> "handleColumnOperation", column |-> column, operator |-> operator,
                  value |-> value, result |-> handleColumnOperation(column, operator, value)]
    /\ nOps' = nOps + 1
    /\ UNCHANGED <<db, durable, inTxn, fkOn, deleted, mutexVars>>

InitCompile == InitConn

NextCompile ==
    \E column \in ColumnInfos : \E operator \in Operations : \E value \in ConditionValues(column) :
        HandleColumnOperation(column, operator, value)

SpecCompile == InitCompile /\ [][NextCompile]_vars

----------------------------------------------------------------------------
(* SpecSchema: Database.createTables over a family of two-table schemas.    *)
(* cmdCreateTables (sqlite/cmdCreate.ts) compiles every statement before    *)
(* the first one is sent.                                                   *)

DBVector(dtype) ==
    [type |-> "vector", table |-> "", noReplaceOnUpsert |-> FALSE, dtype |-> dtype]

\* Object.keys(schema) of the schemas below
SchemaTableOrder == <<"a", "b">>

PrimaryKeyTypes ==
    {DBTypeOf("number"), DBTypeOf("string"), DBTypeOf("fullTextString"), DBVector("f32")}

ColumnTypes(other) ==
    {DBTypeOf("string"), DBTypeOf("stringArray"), DBTypeOf("fullTextString"),
     DBVector("f32"), DBVector("f16"), DBForeignKey(other)}

\* tables a and b, each with a primary key id and one more column x
Schemas ==
    {[a |-> [primaryKey |-> "id", columns |-> [id |-> ia, x |-> xa]],
      b |-> [primaryKey |-> "id", columns |-> [id |-> ib, x |-> xb]]] :
        ia \in PrimaryKeyTypes, xa \in ColumnTypes("b"),
        ib \in PrimaryKeyTypes, xb \in ColumnTypes("a")}

Thrown == [ok |-> FALSE, value |-> "Error"]

Value(v) == [ok |-> TRUE, value |-> v]

\* variant: a vector column is given the type blob
RECURSIVE typeofColumn_VectorAsBlob(_, _)
typeofColumn_VectorAsBlob(column, schema) ==
    CASE column.type = "string" -> Value("text")
      [] column.type = "number" -> Value("integer")
      [] column.type = "boolean" -> Value("boolean")
      [] column.type = "bytes" -> Value("blob")
      [] column.type = "fullTextString" -> Thrown
      [] column.type \in {"stringArray", "json"} -> Value("json")
      [] column.type = "foreignKey" ->
            typeofColumn_VectorAsBlob(
                schema[column.table].columns[schema[column.table].primaryKey], schema)
      [] column.type = "vector" -> Value("blob")

RECURSIVE typeofColumn(_, _)
typeofColumn(column, schema) ==
    CASE column.type = "string" -> Value("text")
      [] column.type = "number" -> Value("integer")
      [] column.type = "boolean" -> Value("boolean")
      [] column.type = "bytes" -> Value("blob")
      [] column.type = "fullTextString" -> Thrown
      [] column.type \in {"stringArray", "json"} -> Value("json")
      [] column.type = "foreignKey" ->
            typeofColumn(schema[column.table].columns[schema[column.table].primaryKey], schema)
      [] column.type = "vector" -> Thrown

\* a CREATE [VIRTUAL] TABLE IF NOT EXISTS statement
CreateStmt(name, columns, primaryKey) ==
    [k |-> "create", tbl |-> name, cols |-> columns, primaryKey |-> primaryKey]

createTableCommand(tableName, schema) ==
    LET table == schema[tableName]
        relevantColumns == {c \in DOMAIN table.columns :
                               table.columns[c].type \notin {"fullTextString", "vector"}}
    IN  IF table.columns[table.primaryKey].type = "fullTextString" THEN Thrown
        ELSE IF \E c \in relevantColumns : ~typeofColumn(table.columns[c], schema).ok THEN Thrown
        ELSE Value(<<CreateStmt(MainTableName(tableName), relevantColumns, table.primaryKey)>>)

\* null (no statement) for a table without full-text columns
createFTS5TableCommand(tableName, schema) ==
    LET relevantColumns == {c \in DOMAIN schema[tableName].columns :
                               schema[tableName].columns[c].type = "fullTextString"}
    IN  IF relevantColumns = {} THEN Value(<<>>)
        ELSE Value(<<CreateStmt(getFTS5VirtualTableName(tableName),
                                relevantColumns \cup {VTABLE_COLUMN_ORIGINPK},
                                VTABLE_COLUMN_ORIGINPK)>>)

\* null (no statement) for a table without vector columns
createVectorTableCommand(tableName, schema) ==
    LET table == schema[tableName]
        relevantColumns == {c \in DOMAIN table.columns : table.columns[c].type = "vector"}
    IN  IF relevantColumns = {} THEN Value(<<>>)
        ELSE IF ~typeofColumn(table.columns[table.primaryKey], schema).ok THEN Thrown
        ELSE IF \E c \in relevantColumns : table.columns[c].dtype \notin {"i8", "f32"} THEN Thrown
        ELSE Value(<<CreateStmt(getVectorVirtualTableName(tableName),
                                relevantColumns \cup {VTABLE_COLUMN_ORIGINPK},
                                VTABLE_COLUMN_ORIGINPK)>>)

\* for (const tableName of Object.keys(schema)): the three commands of each
\* table; an Error thrown for any table leaves the function
RECURSIVE CreateCommands(_, _)
CreateCommands(ts, schema) ==
    IF ts = <<>> THEN Value(<<>>)
    ELSE LET main == createTableCommand(Head(ts), schema)
             fts == createFTS5TableCommand(Head(ts), schema)
             vec == createVectorTableCommand(Head(ts), schema)
             rest == CreateCommands(Tail(ts), schema)
         IN  IF main.ok /\ fts.ok /\ vec.ok /\ rest.ok
             THEN Value(main.value \o fts.value \o vec.value \o rest.value)
             ELSE Thrown

cmdCreateTables(schema) == CreateCommands(SchemaTableOrder, schema)

\* the engine on a CREATE TABLE: a PRIMARY KEY constraint on a column the
\* table lacks is an error
RECURSIVE RunCreates(_, _)
RunCreates(commands, tables) ==
    IF commands = <<>> THEN [ok |-> TRUE, sent |-> 0, tables |-> tables]
    ELSE IF Head(commands).primaryKey \notin Head(commands).cols
    THEN [ok |-> FALSE, sent |-> 1, tables |-> tables]
    ELSE LET rest == RunCreates(Tail(commands), tables \cup {Head(commands).tbl})
         IN  [rest EXCEPT !.sent = @ + 1]

\* Database.createTables: compile, then execute each command under the mutex
CreateTables(schema) ==
    /\ lastOp = NoCall
    /\ \E commands \in {cmdCreateTables(schema)} :
       \E r \in {IF commands.ok THEN RunCreates(commands.value, {})
                 ELSE [ok |-> FALSE, sent |-> 0, tables |-> {}]} :
           lastOp' = [kind |-> "createTables", schema |-> schema, ok |-> r.ok,
                      compiled |-> commands.ok, sent |-> r.sent, tables |-> r.tables]
    /\ nOps' = nOps + 1
    /\ UNCHANGED <<db, durable, inTxn, fkOn, deleted, mutexVars>>

InitSchema == InitConn

NextSchema == \E schema \in Schemas : CreateTables(schema)

SpecSchema == InitSchema /\ [][NextSchema]_vars

----------------------------------------------------------------------------
(* Spec: facade calls as asynchronous functions.  A call is invoked, may    *)
(* wait for the mutex, and hands its statements to the connection one at a  *)
(* time, suspended at each await until the connection answers.  The body of *)
(* a method is the sequence of what it does: "stmt" is an awaited call of   *)
(* the connection, "emit" an observer emit, "enter" and "leave" the start   *)
(* and the finally block of a public method it calls that runs inside       *)
(* _withMutex itself.                                                       *)

MaxCalls == 3

Calls == 1..MaxCalls

Stmts(k) == [i \in 1..k |-> "stmt"]

\* a call of another public method whose body runs inside _withMutex
Guarded(items) == <<"enter">> \o items \o <<"leave">>

\* a public method: whether its body runs inside _withMutex, what the body
\* does, and how many awaited connection calls it makes
Method(name, mutex, body) ==
    [name |-> name, mutex |-> mutex, body |-> body,
     n |-> Cardinality({i \in DOMAIN body : body[i] = "stmt"})]

Methods ==
    { Method("insertRow", TRUE,
             Stmts(Len(cmdInsert("post", MkRow("post", 1, 1, 1)))) \o <<"emit">>),
      Method("upsertRows", TRUE, Stmts(MaxRows) \o <<"emit">>),
      Method("deleteWhere", TRUE,
             Stmts(1) \o Guarded(Stmts(Len(cmdDeleteMany("user", <<1>>))) \o <<"emit">>)
                \o <<"emit">>),
      Method("resolveForeignKeys", TRUE, Stmts(Cardinality(ForeignKeyColumns("comment")))),
      Method("select", FALSE, Stmts(1)),
      Method("selectByPrimaryKeys", FALSE, Stmts(1)),
      Method("selectOne", FALSE, Stmts(1)),
      Method("exists", FALSE, Stmts(1)) }

NoMethod == Method("none", FALSE, <<>>)

Running == {"locked", "bypass", "free"}

\* DBEventCallbackManager.cbs of the table: the callbacks in addCallback order
cbs == <<"first", "second">>

\* DBEventCallbackManager.emit: the callbacks it invokes, in order
emit(callbacks) == [i \in DOMAIN callbacks |-> callbacks[i]]

Pending == [status |-> "pending", error |-> 0, mode |-> ""]

\* variant: every _withMutex call takes the lock, a nested one too
Bypasses_Never(d) == FALSE

\* if (this._mutexLockDepth > 0) return await fn()
Bypasses(d) == d > 0

\* variant: the finally block decrements the depth for every call
AfterFinally_Always(mode, st) ==
    [st EXCEPT !.depth = @ - 1, !.held = IF st.depth - 1 = 0 THEN FALSE ELSE @]

\* _withMutex's finally block, for a call that took the lock ("locked") and
\* for one that did not
AfterFinally(mode, st) ==
    IF mode = "locked"
    THEN [st EXCEPT !.depth = @ - 1, !.held = IF st.depth - 1 = 0 THEN FALSE ELSE @]
    ELSE st

\* the number of "stmt" items of a body before position i
StmtsBefore(body, i) == Cardinality({j \in 1..(i - 1) : body[j] = "stmt"})

\* the position of the k-th "stmt" of a body
StmtPos(body, k) ==
    IF k = 0 THEN 0
    ELSE CHOOSE i \in DOMAIN body : body[i] = "stmt" /\ StmtsBefore(body, i) = k - 1

\* the position of the first "enter" after the k-th "stmt"
EnterPos(body, k) ==
    CHOOSE i \in DOMAIN body :
        /\ body[i] = "enter" /\ i > StmtPos(body, k)
        /\ \A j \in (StmtPos(body, k) + 1)..(i - 1) : body[j] # "enter"

\* what call c sees of the lock: the depth, the mutex, its nested call, and
\* the emissions so far
Cur(c) == [stop |-> "", depth |-> depth, held |-> held, inner |-> inner[c], emitted |-> emitted]

\* the synchronous run of call c from position i of its body up to its next
\* await: a statement handed to the connection, a lock() of a nested call,
\* or the end of the body
RECURSIVE Run(_, _, _, _)
Run(c, body, i, st) ==
    The({ IF i > Len(body) THEN [s EXCEPT !.stop = "end"]
          ELSE CASE body[i] = "stmt" -> [s EXCEPT !.stop = "stmt"]
                 [] body[i] = "emit" ->
                      Run(c, body, i + 1,
                          [s EXCEPT !.emitted =
                              Append(@, [call |-> c, depth |-> s.depth, held |-> s.held,
                                         sent |-> StmtsBefore(body, i),
                                         callbacks |-> emit(cbs)])])
                 [] body[i] = "enter" ->
                      IF Bypasses(s.depth)
                      THEN Run(c, body, i + 1, [s EXCEPT !.inner = "bypass"])
                      ELSE [s EXCEPT !.stop = "wait", !.inner = "waiting"]
                 [] body[i] = "leave" ->
                      Run(c, body, i + 1, AfterFinally(s.inner, [s EXCEPT !.inner = "none"]))
          : s \in {st} })

\* this._cxn.execute / executeInTransaction called by call c at lock depth d
Hand(c, d) ==
    /\ sent' = [sent EXCEPT ![c] = @ + 1]
    /\ log' = Append(log, [call |-> c, depth |-> d])

\* call c, whose _withMutex frame is in the given mode, runs from position i
\* with the lock as in st and the promise chain as in q
Step(c, m, mode, i, st, q) ==
    \E r \in {Run(c, m.body, i, st)} :
    \E f \in {IF r.stop = "end" THEN AfterFinally(mode, r) ELSE r} :
        /\ depth' = f.depth
        /\ held' = f.held
        /\ emitted' = f.emitted
        /\ inner' = [inner EXCEPT ![c] = f.inner]
        /\ pc' = [pc EXCEPT ![c] = IF r.stop = "end" THEN "done" ELSE mode]
        /\ queue' = IF r.stop = "wait" THEN Append(q, c) ELSE q
        /\ outcome' = [outcome EXCEPT ![c] =
                          IF r.stop = "end"
                          THEN [status |-> "resolved", error |-> 0, mode |-> mode]
                          ELSE @]
        /\ IF r.stop = "stmt" THEN Hand(c, f.depth) ELSE UNCHANGED <<sent, log>>

\* a caller invokes a method: the body runs up to its first await
Invoke(c, m) ==
    /\ pc[c] = "idle"
    /\ \A b \in Calls : b < c => pc[b] # "idle"
    /\ op' = [op EXCEPT ![c] = m]
    /\ IF ~m.mutex
       THEN Step(c, m, "free", 1, Cur(c), queue)
       ELSE IF Bypasses(depth)
       THEN Step(c, m, "bypass", 1, Cur(c), queue)
       ELSE \* await this._mutex.lock()
            /\ pc' = [pc EXCEPT ![c] = "waiting"]
            /\ queue' = Append(queue, c)
            /\ UNCHANGED <<sent, log, depth, held, emitted, inner, outcome>>
    /\ UNCHANGED <<raised, storeVars>>

\* lock() resolves for the head of the promise chain: depth++, then fn(),
\* of call c itself or of the nested call it waits in
Acquire(c) ==
    /\ queue # <<>> /\ Head(queue) = c
    /\ ~held
    /\ IF pc[c] = "waiting"
       THEN Step(c, op[c], "locked", 1,
                 [Cur(c) EXCEPT !.depth = depth + 1, !.held = TRUE], Tail(queue))
       ELSE Step(c, op[c], pc[c], EnterPos(op[c].body, sent[c]) + 1,
                 [Cur(c) EXCEPT !.depth = depth + 1, !.held = TRUE, !.inner = "locked"],
                 Tail(queue))
    /\ UNCHANGED <<op, raised, storeVars>>

\* call c awaits an answer of the connection
InFlight(c) == pc[c] \in Running /\ inner[c] # "waiting"

\* the connection answers call c: the body runs on, to its next statement
\* or to its end: finally (depth--, release() at depth 0)
StatementDone(c) ==
    /\ InFlight(c)
    /\ Step(c, op[c], pc[c], StmtPos(op[c].body, sent[c]) + 1, Cur(c), queue)
    /\ UNCHANGED <<op, raised, storeVars>>

\* the finally blocks a failing call runs on its way out: of the nested
\* call, then its own
Finally(c) ==
    \E f \in {AfterFinally(pc[c], AfterFinally(inner[c], Cur(c)))} :
        depth' = f.depth /\ held' = f.held

\* variant: the failing call leaves without its finally block
StatementFails_NoFinally(c) ==
    /\ InFlight(c)
    /\ pc' = [pc EXCEPT ![c] = "failed"]
    /\ inner' = [inner EXCEPT ![c] = "none"]
    /\ raised' = [raised EXCEPT ![c] = sent[c]]
    /\ outcome' = [outcome EXCEPT ![c] = [status |-> "rejected", error |-> sent[c],
                                          mode |-> pc[c]]]
    /\ UNCHANGED <<depth, held, op, queue, sent, log, emitted, storeVars>>

\* the connection rejects the statement of call c that is in flight: the
\* await throws, the rest of the body is skipped, finally runs and the error
\* leaves _withMutex
StatementFails(c) ==
    /\ InFlight(c)
    /\ pc' = [pc EXCEPT ![c] = "failed"]
    /\ inner' = [inner EXCEPT ![c] = "none"]
    /\ raised' = [raised EXCEPT ![c] = sent[c]]
    /\ outcome' = [outcome EXCEPT ![c] = [status |-> "rejected", error |-> sent[c],
                                          mode |-> pc[c]]]
    /\ Finally(c)
    /\ UNCHANGED <<op, queue, sent, log, emitted, storeVars>>

Init ==
    /\ db = EmptyDB /\ durable = EmptyDB /\ inTxn = FALSE /\ fkOn = FALSE
    /\ lastOp = NoCall /\ nOps = 0 /\ deleted = {}
    /\ pc = [c \in Calls |-> "idle"]
    /\ op = [c \in Calls |-> NoMethod]
    /\ sent = [c \in Calls |-> 0]
    /\ depth = 0 /\ queue = <<>> /\ held = FALSE /\ log = <<>>
    /\ raised = [c \in Calls |-> 0]
    /\ outcome = [c \in Calls |-> Pending]
    /\ emitted = <<>>
    /\ inner = [c \in Calls |-> "none"]

Next ==
    \/ \E c \in Calls : \E m \in Methods : Invoke(c, m)
    \/ \E c \in Calls : Acquire(c)
    \/ \E c \in Calls : StatementDone(c)
    \/ \E c \in Calls : StatementFails(c)

Spec == Init /\ [][Next]_vars

----------------------------------------------------------------------------
(* SpecNested: the same calls, of the methods that call other public       *)
(* methods from inside their critical section.  SpecLive adds that the     *)
(* connection answers every statement it was handed and that the promise   *)
(* chain of the mutex resolves for its head.                               *)

RECURSIVE Repeat(_, _)
Repeat(items, times) == IF times = 0 THEN <<>> ELSE items \o Repeat(items, times - 1)

\* deleteWhere of a query that matches one key more than a batch holds: one
\* deleteRows call per batch
DeleteWhereBatches == (DeleteBatchSize + 1 + DeleteBatchSize - 1) \div DeleteBatchSize

NestedMethods ==
    { Method("updateRow", TRUE,
             Guarded(Stmts(Len(cmdUpdateMany("user", <<Restrict(MkRow("user", 1, 0, 1),
                                                               {"id", "name"})>>)))
                     \o <<"emit">>) \o <<"emit">>),
      Method("deleteWhere", TRUE,
             Stmts(1)
                \o Repeat(Guarded(Stmts(Len(cmdDeleteMany("user", <<1>>))) \o <<"emit">>),
                          DeleteWhereBatches)
                \o <<"emit">>),
      Method("deleteRows", TRUE, Stmts(Len(cmdDeleteMany("user", <<1>>))) \o <<"emit">>),
      Method("resolveForeignKeys", TRUE, Stmts(Cardinality(ForeignKeyColumns("comment")))) }

NextNested ==
    \/ \E c \in Calls : \E m \in NestedMethods : Invoke(c, m)
    \/ \E c \in Calls : Acquire(c)
    \/ \E c \in Calls : StatementDone(c)
    \/ \E c \in Calls : StatementFails(c)

SpecNested == Init /\ [][NextNested]_vars

\* an answer of the connection, or a resolution of the promise chain
Progress == \E c \in Calls : Acquire(c) \/ StatementDone(c) \/ StatementFails(c)

SpecLive == Init /\ [][NextNested]_vars /\ WF_vars(Progress)

----------------------------------------------------------------------------
(* SpecUpsert: one upsertRows call at a time, its loop taken one batch per  *)
(* step.  lastOp is the running call: its rows, its batchSize option, the   *)
(* loop variable i, the batch last handed over and the number of            *)
(* executeInTransaction calls made, counted modulo MaxBatches.  As in Spec, *)
(* the connection answers a call by resolving or by rejecting; what the     *)
(* statements do to the tables plays no part in the loop.                    *)
(* SpecUpsertLive adds that the connection answers every call.              *)

MaxBatches == 3

\* opts?.batchSize: undefined (the default applies) or a number
BatchSizeOptions == {0, 1, MaxRows, DefaultBatchSize}

UpsertRunning == lastOp.kind = "upsertRows" /\ lastOp.running

UpsertIdle == UNCHANGED <<db, durable, inTxn, fkOn, deleted,
                          pc, op, sent, queue, log, raised, outcome, emitted, inner>>

\* upsertRows(table, rows, {batchSize}) takes the free lock: await lock(),
\* this._mutexLockDepth++, const batchSize = opts?.batchSize ?? 1024, i = 0
UpsertEnter(t, rows, batchSize) ==
    /\ ~UpsertRunning /\ ~held /\ depth = 0
    /\ nOps < MaxOps
    /\ held' = TRUE
    /\ depth' = depth + 1
    /\ lastOp' = [kind |-> "upsertRows", table |-> t, rows |-> rows, batchSize |-> batchSize,
                  i |-> 0, batch |-> <<>>, batches |-> 0, running |-> TRUE, ok |-> TRUE,
                  reached |-> FALSE, thrown |-> FALSE]
    /\ nOps' = nOps + 1
    /\ UpsertIdle

\* the loop condition holds: rows.slice(i, i + batchSize) is the next batch
InLoop == UpsertRunning /\ lastOp.i < Len(lastOp.rows)

\* filterNonVirtualColumns and its like read table.columns[columnName].type for
\* every key of a row: a TypeError for a key that is no column of the table.
\* cmdUpsertMany returns before that for an empty batch.
CompileThrows(t, rows) == \E k \in DOMAIN rows : ~(DOMAIN rows[k] \subseteq Columns(t))

Compiles == ~CompileThrows(lastOp.table, Slice(lastOp.rows, lastOp.i, lastOp.batchSize))

\* cmdUpsertMany throws for the batch: nothing is handed over, the finally
\* block runs and upsertRows rejects
BatchThrows ==
    /\ InLoop /\ ~Compiles
    /\ lastOp' = [lastOp EXCEPT !.batch = Slice(lastOp.rows, lastOp.i, lastOp.batchSize),
                                !.running = FALSE, !.ok = FALSE, !.thrown = TRUE]
    /\ depth' = depth - 1
    /\ held' = FALSE
    /\ UNCHANGED nOps
    /\ UpsertIdle

\* executeInTransaction resolves: i += batchSize, back to the loop condition
BatchDone ==
    /\ InLoop /\ Compiles
    /\ lastOp' = [lastOp EXCEPT !.batch = Slice(lastOp.rows, lastOp.i, lastOp.batchSize),
                                !.i = @ + lastOp.batchSize,
                                !.batches = (@ + 1) % MaxBatches, !.reached = TRUE]
    /\ UNCHANGED <<held, depth, nOps>>
    /\ UpsertIdle

\* executeInTransaction rejects: the finally block, and upsertRows rejects
BatchFails ==
    /\ InLoop /\ Compiles
    /\ lastOp' = [lastOp EXCEPT !.batch = Slice(lastOp.rows, lastOp.i, lastOp.batchSize),
                                !.batches = (@ + 1) % MaxBatches, !.reached = TRUE,
                                !.running = FALSE, !.ok = FALSE]
    /\ depth' = depth - 1
    /\ held' = FALSE
    /\ UNCHANGED nOps
    /\ UpsertIdle

\* the loop is over: the emit, then the finally block releases the lock
UpsertLeave ==
    /\ UpsertRunning /\ lastOp.i >= Len(lastOp.rows)
    /\ lastOp' = [lastOp EXCEPT !.running = FALSE]
    /\ depth' = depth - 1
    /\ held' = FALSE
    /\ UNCHANGED nOps
    /\ UpsertIdle

InitUpsert ==
    /\ fkOn \in BOOLEAN
    /\ db = EmptyDB
    /\ deleted = {}
    /\ durable = db
    /\ inTxn = FALSE
    /\ lastOp = NoCall
    /\ nOps = 0
    /\ MutexIdle

\* a row with a key that is no column of its table
Malformed(r) == [c \in DOMAIN r \cup {"bogus"} |-> IF c \in DOMAIN r THEN r[c] ELSE 1]

\* well-formed row lists, and lists of two rows of which one is malformed
UpsertInputs(t) ==
    InputRowSeqs(t)
    \cup {<<Malformed(r)>> : r \in InputRows(t)}
    \cup {<<MkRow(t, 1, 1, 1), Malformed(r)>> : r \in InputRows(t)}
    \cup {<<Malformed(r), MkRow(t, 1, 1, 1)>> : r \in InputRows(t)}

NextUpsert ==
    \/ \E t \in WrittenTables : \E rows \in UpsertInputs(t) :
       \E batchSize \in BatchSizeOptions : UpsertEnter(t, rows, batchSize)
    \/ BatchDone
    \/ BatchFails
    \/ BatchThrows
    \/ UpsertLeave

SpecUpsert == InitUpsert /\ [][NextUpsert]_vars

\* the connection answers every executeInTransaction call, and the function
\* goes on after each await
Answered == BatchDone \/ BatchFails \/ BatchThrows \/ UpsertLeave

SpecUpsertLive == InitUpsert /\ [][NextUpsert]_vars /\ WF_vars(Answered)

----------------------------------------------------------------------------
(* SpecTypeof: the calls of typeofColumn that createTableCommand makes, one  *)
(* call frame per step, over two-table schemas whose primary keys may be    *)
(* foreign keys.  lastOp is the running resolution: the column of the       *)
(* current frame, the number of frames counted modulo MaxFrames, and the    *)
(* result once a frame returns.  SpecTypeofLive adds that every frame runs. *)

MaxFrames == 3

\* the frame has not returned yet
NotReturned == [ok |-> FALSE, value |-> "pending"]

\* a primary key or a second column of table t: a plain type, or a foreign
\* key to the other table o or to t itself; every target exists
KeyColumnTypes(t, o) ==
    {DBTypeOf("number"), DBTypeOf("string"), DBForeignKey(o), DBForeignKey(t)}

CyclicSchemas ==
    {[a |-> [primaryKey |-> "id", columns |-> [id |-> ia, x |-> xa]],
      b |-> [primaryKey |-> "id", columns |-> [id |-> ib, x |-> xb]]] :
        ia \in KeyColumnTypes("a", "b"), xa \in KeyColumnTypes("a", "b"),
        ib \in KeyColumnTypes("b", "a"), xb \in KeyColumnTypes("b", "a")}

Resolving == lastOp.kind = "typeofColumn" /\ lastOp.result = NotReturned

\* createTableCommand: tableBuilder.addColumn(columnName, typeofColumn(column, schema))
TypeofCall(schema, tableName, columnName) ==
    /\ ~Resolving
    /\ nOps < MaxOps
    /\ lastOp' = [kind |-> "typeofColumn", schema |-> schema, table |-> tableName,
                  columnName |-> columnName, column |-> schema[tableName].columns[columnName],
                  frames |-> 1, result |-> NotReturned]
    /\ nOps' = nOps + 1
    /\ UNCHANGED <<db, durable, inTxn, fkOn, deleted, mutexVars>>

\* one frame of typeofColumn: case "foreignKey" calls typeofColumn on the
\* primary key column of the target table; every other case returns or throws
TypeofFrame ==
    /\ Resolving
    /\ lastOp' =
         IF lastOp.column.type = "foreignKey"
         THEN LET foreignKeyTable == lastOp.schema[lastOp.column.table]
              IN  [lastOp EXCEPT !.column = foreignKeyTable.columns[foreignKeyTable.primaryKey],
                                 !.frames = (@ % MaxFrames) + 1]
         ELSE [lastOp EXCEPT !.result = typeofColumn(lastOp.column, lastOp.schema)]
    /\ UNCHANGED <<db, durable, inTxn, fkOn, deleted, nOps, mutexVars>>

NextTypeof ==
    \/ \E schema \in CyclicSchemas : \E tableName \in DOMAIN schema :
       \E columnName \in DOMAIN schema[tableName].columns :
           TypeofCall(schema, tableName, columnName)
    \/ TypeofFrame

SpecTypeof == InitConn /\ [][NextTypeof]_vars

SpecTypeofLive == InitConn /\ [][NextTypeof]_vars /\ WF_vars(TypeofFrame)

----------------------------------------------------------------------------
(* SpecObserver: one PerTableCallbackManager of the observer (observer.ts). *)
(* lastOp holds the manager: perTable, the table and the array of the emit  *)
(* in progress with the position of its for-of loop, and the registrations  *)
(* that were removed and not added again.  A callback is a function that    *)
(* may itself call addCallback and removeCallback, so these run between    *)
(* two invocations of one emit as well as between emits.                    *)

\* the most callbacks one table's manager holds
MaxCallbacks == 3

Callbacks == {"f", "g"}

ObservedTables == {"user", "post"}

\* perTable[table] before the first addCallback of the table
NoManager == [defined |-> FALSE, cbs |-> <<>>]

NotEmitting == "none"

RECURSIVE Filter(_, _)
\* cbs.filter(cb => cb !== callback)
Filter(callbacks, callback) ==
    IF callbacks = <<>> THEN <<>>
    ELSE If(Head(callbacks) # callback, <<Head(callbacks)>>) \o Filter(Tail(callbacks), callback)

ObserverIdle == UNCHANGED <<db, durable, inTxn, fkOn, deleted, nOps, mutexVars>>

\* code outside the manager runs between two emits, or as the body of the
\* callback that the loop of emit has just invoked
CallerRuns == lastOp.emitting = NotEmitting \/ lastOp.i > 1

\* PerTableCallbackManager.addCallback: the manager of the table is created
\* on first use; DBEventCallbackManager.addCallback pushes
AddCallback(table, callback) ==
    /\ CallerRuns
    /\ Len(lastOp.perTable[table].cbs) < MaxCallbacks
    /\ lastOp' = [lastOp EXCEPT
                    !.perTable[table] = [defined |-> TRUE, cbs |-> Append(@.cbs, callback)],
                    !.removed = @ \ {<<table, callback>>}]
    /\ ObserverIdle

\* PerTableCallbackManager.removeCallback: returns at once without a manager;
\* DBEventCallbackManager.removeCallback assigns the filtered array
RemoveCallback(table, callback) ==
    /\ CallerRuns
    /\ lastOp' = [lastOp EXCEPT
                    !.perTable[table].cbs =
                        IF lastOp.perTable[table].defined THEN Filter(@, callback) ELSE @,
                    !.removed = @ \cup {<<table, callback>>}]
    /\ ObserverIdle

\* PerTableCallbackManager.emit(table, event): nothing without a manager;
\* DBEventCallbackManager.emit starts for (const cb of this.cbs)
Emit(table) ==
    /\ lastOp.emitting = NotEmitting
    /\ lastOp.perTable[table].defined /\ lastOp.perTable[table].cbs # <<>>
    /\ lastOp' = [lastOp EXCEPT !.emitting = table, !.array = lastOp.perTable[table].cbs,
                                !.i = 1]
    /\ ObserverIdle

\* one turn of the for-of loop: cb(event) for the next element of the array
\* the loop started on
InvokeCallback ==
    /\ lastOp.emitting # NotEmitting
    /\ lastOp' = IF lastOp.i < Len(lastOp.array)
                 THEN [lastOp EXCEPT !.i = @ + 1]
                 ELSE [lastOp EXCEPT !.emitting = NotEmitting, !.array = <<>>, !.i = 0]
    /\ ObserverIdle

InitObserver ==
    /\ fkOn \in BOOLEAN
    /\ db = EmptyDB
    /\ durable = db
    /\ inTxn = FALSE
    /\ nOps = 0
    /\ deleted = {}
    /\ MutexIdle
    /\ lastOp = [kind |-> "observer", perTable |-> [t \in ObservedTables |-> NoManager],
                 emitting |-> NotEmitting, array |-> <<>>, i |-> 0, removed |-> {}]

NextObserver ==
    \/ \E table \in ObservedTables : \E callback \in Callbacks : AddCallback(table, callback)
    \/ \E table \in ObservedTables : \E callback \in Callbacks : RemoveCallback(table, callback)
    \/ \E table \in ObservedTables : Emit(table)
    \/ InvokeCallback

SpecObserver == InitObserver /\ [][NextObserver]_vars

----------------------------------------------------------------------------
(* TableQueryBuilder (SpecBuilder): conditions are objects.  heap[r] is the *)
(* object behind reference r; its children are the conditions the helper    *)
(* that built it was given (inline) followed by the references and() pushed *)
(* onto it.  Reference 0 is null.                                           *)

MaxAnds == 3

NullRef == 0

Obj(type, value, inline, pushed) ==
    [type |-> type, value |-> value, inline |-> inline, pushed |-> pushed]

\* what a builder function returns through the helpers where, all and any
BuilderResults ==
    LET a == Where(Direct("title"), "equals", 1)
        b == Where(Direct("id"), "equals", 2)
    IN  {Obj("where", a, <<>>, <<>>), Obj("where", b, <<>>, <<>>),
         Obj("all", NoCondition, <<>>, <<>>), Obj("all", NoCondition, <<a>>, <<>>),
         Obj("any", NoCondition, <<>>, <<>>), Obj("any", NoCondition, <<a, b>>, <<>>)}

SortByClauses == {[column |-> "id", direction |-> "asc"], [column |-> "title", direction |-> "desc"]}

NoSortBy == [column |-> "", direction |-> ""]

KNNVectorQueries == {[queryVectors |-> [c \in {} |-> 0], k |-> 1]}

\* the objects reachable from reference r in at most n steps along pushed
RECURSIVE ReachableRefs(_, _, _)
ReachableRefs(heap, refs, n) ==
    IF n = 0 THEN refs
    ELSE ReachableRefs(heap, refs \cup UNION {SeqToSet(heap[r].pushed) : r \in refs}, n - 1)

\* the object graph below r loops back on itself
Cyclic(heap, r) ==
    r # NullRef /\ \E s \in ReachableRefs(heap, {r}, Len(heap)) :
                       s \in ReachableRefs(heap, SeqToSet(heap[s].pushed), Len(heap))

\* the condition a reader of reference r sees (r not cyclic)
RECURSIVE Deref(_, _)
Deref(heap, r) ==
    IF r = NullRef THEN NoCondition
    ELSE LET o == heap[r]
             children == o.inline \o [k \in DOMAIN o.pushed |-> Deref(heap, o.pushed[k])]
         IN  CASE o.type = "where" -> o.value
               [] o.type = "all" -> AllOf(children)
               [] OTHER -> AnyOf(children)

CyclicCondition == [type |-> "cyclic"]

Seen(heap, r) == IF Cyclic(heap, r) THEN CyclicCondition ELSE Deref(heap, r)

NoQuery == [returned |-> FALSE]

\* TableQueryBuilder.and once the builder function has returned newCondition
and(b, newCondition) ==
    IF newCondition = NullRef THEN b
    ELSE IF b.condition # NullRef
    THEN IF b.heap[b.condition].type = "all"
         THEN [b EXCEPT !.heap[b.condition].pushed = Append(@, newCondition)]
         ELSE [b EXCEPT !.heap = Append(@, Obj("all", NoCondition, <<>>,
                                               <<b.condition, newCondition>>)),
                        !.condition = Len(b.heap) + 1]
    ELSE [b EXCEPT !.condition = newCondition]

BuilderIdle == UNCHANGED <<db, durable, inTxn, fkOn, deleted, nOps, mutexVars>>

\* and(builder) where the builder function builds a new condition
And(result) ==
    /\ lastOp.ands < MaxAnds
    /\ LET heap == Append(lastOp.heap, result)
           ref == Len(heap)
       IN  lastOp' = [and([lastOp EXCEPT !.heap = heap], ref) EXCEPT
                        !.ands = @ + 1, !.call = "and",
                        !.results = Append(@, [ref |-> ref, value |-> Seen(heap, ref)])]
    /\ BuilderIdle

\* and(builder) where the builder function returns a condition object it has
\* returned before
AndAgain(k) ==
    /\ lastOp.ands < MaxAnds
    /\ k \in DOMAIN lastOp.results
    /\ lastOp' = [and(lastOp, lastOp.results[k].ref) EXCEPT
                    !.ands = @ + 1, !.call = "andAgain",
                    !.results = Append(@, [ref |-> lastOp.results[k].ref,
                                           value |-> Seen(lastOp.heap, lastOp.results[k].ref)])]
    /\ BuilderIdle

\* and(builder) where the builder function returns null or undefined
AndNothing ==
    /\ lastOp.ands < MaxAnds
    /\ lastOp' = [and(lastOp, NullRef) EXCEPT !.ands = @ + 1, !.call = "andNothing"]
    /\ BuilderIdle

SortBy(clause) ==
    /\ lastOp.sortByClause # clause
    /\ lastOp' = [lastOp EXCEPT !.sortByClause = clause, !.call = "sortBy"]
    /\ BuilderIdle

WithVectorDistances(q) ==
    /\ lastOp.vectorQuery # q
    /\ lastOp' = [lastOp EXCEPT !.vectorQuery = q, !.call = "withVectorDistances"]
    /\ BuilderIdle

\* toQuery: the object returned holds the builder's condition object itself;
\* seen is what the caller reads in it on return
ToQuery ==
    /\ ~lastOp.query.returned
    /\ lastOp' = [lastOp EXCEPT
                    !.call = "toQuery",
                    !.query = [returned |-> TRUE, tableName |-> lastOp.tableName,
                               condition |-> lastOp.condition,
                               sortBy |-> lastOp.sortByClause,
                               vectorQuery |-> lastOp.vectorQuery,
                               seen |-> Seen(lastOp.heap, lastOp.condition)]]
    /\ BuilderIdle

InitBuilder ==
    /\ fkOn \in BOOLEAN
    /\ db = EmptyDB
    /\ durable = db
    /\ inTxn = FALSE
    /\ nOps = 0
    /\ deleted = {}
    /\ MutexIdle
    /\ lastOp = [kind |-> "builder", tableName |-> "post", heap |-> <<>>,
                 condition |-> NullRef, sortByClause |-> NoSortBy,
                 vectorQuery |-> NoVectorQuery, ands |-> 0, call |-> "new",
                 results |-> <<>>, query |-> NoQuery]

NextBuilder ==
    \/ \E result \in BuilderResults : And(result)
    \/ \E k \in 1..MaxAnds : AndAgain(k)
    \/ AndNothing
    \/ \E clause \in SortByClauses : SortBy(clause)
    \/ \E q \in KNNVectorQueries : WithVectorDistances(q)
    \/ ToQuery

SpecBuilder == InitBuilder /\ [][NextBuilder]_vars

----------------------------------------------------------------------------
(* sqlite/naming.ts over identifiers as strings (SpecNaming): a string is   *)
(* the sequence of its characters and a template literal concatenates.      *)

\* the characters of the suffixes getFTS5VirtualTableName and
\* getVectorVirtualTableName append
SuffixChars ==
    [s \in {"", "_fts5", "_vector"} |->
        CASE s = "_fts5" -> <<"_", "f", "t", "s", "5">>
          [] s = "_vector" -> <<"_", "v", "e", "c", "t", "o", "r">>
          [] OTHER -> <<>>]

\* the identifier a derived table name is in SQL
TableIdentifier(name) == name.base \o SuffixChars[name.suffix]

getForeignKeyConstraintName(tableName, columnName) ==
    tableName \o <<"_">> \o columnName \o <<"_", "f", "k">>

getPrimaryKeyConstraintName(tableName) == tableName \o <<"_", "p", "k">>

\* table and column names a schema may declare
DeclaredTableNames ==
    {<<"a">>, <<"b">>, <<"a", "_", "b">>, <<"a", "_", "f", "t", "s", "5">>,
     <<"a", "_", "v", "e", "c", "t", "o", "r">>}

DeclaredColumnNames == {<<"c">>, <<"b", "_", "c">>}

\* what the names depend on in a table: whether it has full-text columns,
\* whether it has vector columns, and its foreign-key columns
NamedTables ==
    [fullText : BOOLEAN, vector : BOOLEAN, foreignKeys : SUBSET DeclaredColumnNames]

NamingSchemas ==
    UNION {[names -> NamedTables] :
             names \in {n \in SUBSET DeclaredTableNames : Cardinality(n) \in 1..2}}

\* the names cmdCreateTables derives for a schema
DerivedNames(schema) ==
    [fts |-> [t \in {t \in DOMAIN schema : schema[t].fullText} |->
                 TableIdentifier(getFTS5VirtualTableName(t))],
     vector |-> [t \in {t \in DOMAIN schema : schema[t].vector} |->
                    TableIdentifier(getVectorVirtualTableName(t))],
     pk |-> [t \in DOMAIN schema |-> getPrimaryKeyConstraintName(t)],
     fk |-> [x \in {x \in (DOMAIN schema) \X DeclaredColumnNames :
                       x[2] \in schema[x[1]].foreignKeys} |->
                getForeignKeyConstraintName(x[1], x[2])]]

NameTables(schema) ==
    /\ lastOp = NoCall
    /\ lastOp' = [kind |-> "naming", schema |-> schema, names |-> DerivedNames(schema)]
    /\ UNCHANGED <<db, durable, inTxn, fkOn, deleted, nOps, mutexVars>>

NextNaming == \E schema \in NamingSchemas : NameTables(schema)

SpecNaming == InitConn /\ [][NextNaming]_vars

----------------------------------------------------------------------------
(* Properties of the concurrent facade (Spec)                               *)

Mutating == {"insertRow", "upsertRows", "deleteWhere"}

\* C1: the statements reaching the connection never interleave: between two
\* statements of one call the log holds no statement of another call.  It is
\* stated here for the calls of methods whose body runs inside _withMutex.
C1_NoInterleaving ==
    \A i \in DOMAIN log : \A j \in DOMAIN log : \A k \in DOMAIN log :
        (/\ i < j /\ j < k
         /\ log[i].call = log[k].call
         /\ op[log[j].call].mutex) => log[j].call = log[i].call

\* C2: mutating calls run in invocation order: no statement of a mutating
\* call invoked later reaches the connection before a statement of a
\* mutating call invoked earlier.
C2_InvocationOrder ==
    \A i \in DOMAIN log : \A j \in DOMAIN log :
        (/\ i < j
         /\ op[log[i].call].name \in Mutating
         /\ op[log[j].call].name \in Mutating) => log[i].call <= log[j].call

\* C3: every statement is handed to the connection while the mutex is held,
\* that is at a lock depth greater than 0, whatever public method sends it.
C3_SentUnderLock == \A i \in DOMAIN log : log[i].depth > 0

\* C15: when a statement of a lock-holding call fails, the same error reaches
\* the caller, the lock depth is back at 0 and the mutex is released, so that
\* the next queued call proceeds.
C15_FailureReleases ==
    /\ \A c \in Calls :
          (raised[c] # 0 <=> outcome[c].status = "rejected") /\ outcome[c].error = raised[c]
    /\ (\A c \in Calls : pc[c] # "locked" /\ inner[c] # "locked") =>
          /\ depth = 0 /\ ~held
          /\ queue # <<>> => ENABLED Acquire(Head(queue))

C15_Witness ==
    \E c \in Calls : \E b \in Calls :
        /\ outcome[c].status = "rejected" /\ outcome[c].mode = "locked"
        /\ b # c /\ pc[b] = "locked" /\ op[b].mutex

\* C16: the observer callbacks of a mutating call are invoked in registration
\* order, after all statements of the call were executed, and while the
\* serialization lock is held.
C16_EmitUnderLock ==
    \A i \in DOMAIN emitted :
        /\ emitted[i].callbacks = cbs
        /\ emitted[i].sent = op[emitted[i].call].n
        /\ emitted[i].depth > 0 /\ emitted[i].held

\* C24: the mutex is released only when no body is executing inside
\* _withMutex any more: while the mutex is free, to be handed to the next
\* waiter, no call that entered its critical section is still at its
\* statements.
C24_ReleasedWhenIdle ==
    ~held => \A b \in Calls : pc[b] \notin {"locked", "bypass"}

----------------------------------------------------------------------------
(* Properties of nested calls (SpecNested, SpecLive)                        *)

Finished == {"done", "failed"}

\* C21: a call of updateRow, deleteWhere or resolveForeignKeys, which call
\* other public methods from inside their critical section, never deadlocks:
\* when the connection answers every statement, there is a point from which
\* every invoked call has completed and the mutex is released.
C21_NestedCallsComplete ==
    <>[](/\ \A c \in Calls : pc[c] \in Finished \cup {"idle"}
         /\ ~held /\ depth = 0 /\ queue = <<>>)

C21_Witness ==
    \E c \in Calls :
        /\ op[c].name = "deleteWhere" /\ pc[c] = "done" /\ outcome[c].mode = "locked"
        /\ ~held /\ depth = 0

\* the calls that took the mutex, themselves or in a nested call
Holders == {c \in Calls : pc[c] = "locked" \/ inner[c] = "locked"}

\* C25: the lock depth is 0 or 1, and it is 1 exactly when some call holds
\* the mutex; the nested calls made while the lock is held leave it alone,
\* so that it counts the holders and nothing else.
C25_DepthCountsHolder ==
    /\ depth \in {0, 1}
    /\ depth = 1 <=> held
    /\ Cardinality(Holders) = depth

C25_Witness ==
    \E c \in Calls :
        /\ pc[c] = "locked" /\ inner[c] = "bypass" /\ sent[c] > 0
        /\ depth = 1 /\ held

\* how often the callback cb was invoked for call c
Invocations(c, cb) ==
    Cardinality({x \in (DOMAIN emitted) \X (DOMAIN cbs) :
                    emitted[x[1]].call = c /\ emitted[x[1]].callbacks[x[2]] = cb})

\* C26: a mutating call that completed has invoked every callback registered
\* for its table and event kind exactly once.
C26_CallbacksOnce ==
    \A c \in Calls :
        (pc[c] = "done" /\ op[c].name \in {"updateRow", "deleteRows", "deleteWhere"}) =>
            \A k \in DOMAIN cbs : Invocations(c, cbs[k]) = 1

\* C27: no callback is invoked for a mutating call of which a statement or a
\* batch failed.
C27_NoEventOnFailure ==
    \A c \in Calls :
        pc[c] = "failed" => \A k \in DOMAIN cbs : Invocations(c, cbs[k]) = 0

----------------------------------------------------------------------------
(* Properties of the upsertRows loop (SpecUpsert, SpecUpsertLive)           *)

\* C32: every upsertRows call, whatever its row list and batchSize option,
\* ends and releases the lock when the connection answers every call.
C32_UpsertRowsTerminates ==
    [](UpsertRunning => <>(~UpsertRunning /\ ~held /\ depth = 0))

\* C36: when compiling a command of a call raises an error, no statement of
\* that call has reached the connection, and the lock is as before the call:
\* depth 0 and the mutex free.
C36_CompileErrorSendsNothing ==
    (lastOp.kind = "upsertRows" /\ lastOp.thrown) =>
        (~lastOp.reached /\ ~held /\ depth = 0)

----------------------------------------------------------------------------
(* Properties of typeofColumn (SpecTypeof, SpecTypeofLive)                  *)

\* C33: for every schema whose foreign-key targets all exist, cycles of
\* foreign keys included, every column type resolution that cmdCreateTables
\* starts comes to an end.
C33_CreateTablesTerminates == [](Resolving => <>~Resolving)

----------------------------------------------------------------------------
(* Properties of the observer (SpecObserver)                                *)

\* the callback invoked by the step, and the table of its event
Invoked == [table |-> lastOp.emitting, cb |-> lastOp.array[lastOp.i]]

\* a turn of the loop of emit
InvokeStep == lastOp.emitting # NotEmitting /\ lastOp'.i # lastOp.i

\* a callback is invoked for a table it is or was registered for
C35_OnlyOwnTable ==
    InvokeStep =>
        \/ Invoked.cb \in SeqToSet(lastOp.perTable[Invoked.table].cbs)
        \/ <<Invoked.table, Invoked.cb>> \in lastOp.removed

\* a callback is not invoked for a table once it was removed for it
C35_NotAfterRemoval ==
    InvokeStep =>
        <<Invoked.table, Invoked.cb>> \notin lastOp.removed

\* a removal leaves the other callbacks of the table in their order, and the
\* callbacks of the other tables as they were
C35_OthersKeepOrder ==
    \A t \in ObservedTables : \A cb \in Callbacks :
        (<<t, cb>> \in lastOp'.removed \ lastOp.removed) =>
            /\ Filter(lastOp'.perTable[t].cbs, cb) = Filter(lastOp.perTable[t].cbs, cb)
            /\ cb \notin SeqToSet(lastOp'.perTable[t].cbs)
            /\ \A u \in ObservedTables \ {t} : lastOp'.perTable[u] = lastOp.perTable[u]

\* C35: a callback registered for table T is invoked only for events of
\* table T; once removeCallback(T, cb) has returned cb is not invoked again;
\* the other registered callbacks keep their relative order.
C35_CallbacksScopedAndRemoved ==
    [][C35_OnlyOwnTable /\ C35_NotAfterRemoval /\ C35_OthersKeepOrder]_vars

----------------------------------------------------------------------------
(* Properties of the stored tables (SpecStore)                              *)

MainKeys(d, t) == {p \in PKs : d.main[t][p] # NoRow}

ShadowKeys(sh) == {p \in PKs : sh[p] # <<>>}

ShadowsMatch(d, t) ==
    /\ getFullTextColumns(t) # {} => ShadowKeys(d.fts[t]) = MainKeys(d, t)
    /\ getVectorColumns(t) # {} => ShadowKeys(d.vec[t]) = MainKeys(d, t)

ReferencedTables(t) == {Schema[t].columns[c].table : c \in ForeignKeyColumns(t)}

\* C4 as stated: after any sequence of operations, on the table or on a table
\* it references, the originPK values of each shadow table are the primary
\* keys of the main table: every operation keeps them equal.
C4_ShadowsMatchAlways ==
    [][(\A t \in TableNames : ShadowsMatch(db, t))
         => (\A t \in TableNames : ShadowsMatch(db', t))]_vars

\* C4 amended: the same, as long as no row was deleted from a table that the
\* table references by foreign key.
C4_ShadowsMatchWithoutReferencedDeletes ==
    \A t \in TableNames : (deleted \cap ReferencedTables(t) = {}) => ShadowsMatch(db, t)

C4_Witness ==
    /\ lastOp.kind = "deleteRows" /\ lastOp.table = "post" /\ lastOp.ok
    /\ deleted = {"post"}
    /\ MainKeys(db, "post") # {}
    /\ ShadowsMatch(db, "post")

\* what the stored row of key p must be after write r1 created it and write
\* r2 upserted it: flagged columns as r1 left them (the state before), the
\* others as r2 alone would store them
KeepsFirstWrite(before, after, t, p, r2) ==
    LET flagged(c) == Schema[t].columns[c].noReplaceOnUpsert
        want(part, c, fresh) == IF flagged(c) THEN before[part][t][p][1][c] ELSE fresh[c]
    IN  /\ after.main[t][p] # NoRow
        /\ \A c \in NonVirtualColumns(t) :
              after.main[t][p][c] = IF flagged(c) THEN before.main[t][p][c] ELSE r2[c]
        /\ getFullTextColumns(t) # {} =>
              /\ Len(after.fts[t][p]) = 1
              /\ \A c \in getFullTextColumns(t) :
                    after.fts[t][p][1][c] = want("fts", c, FtsValues(t, r2, TRUE))
        /\ getVectorColumns(t) # {} =>
              /\ Len(after.vec[t][p]) = 1
              /\ \A c \in getVectorColumns(t) :
                    after.vec[t][p][1][c] = want("vec", c, VectorValues(t, r2))

\* C5: upserting a row of key p twice leaves one stored row for p whose
\* columns flagged noReplaceOnUpsert, shadow columns included, hold the first
\* write and whose other columns hold the second.
C5_UpsertKeepsFlagged ==
    [][(/\ lastOp.kind = "upsertRows" /\ lastOp.ok /\ Len(lastOp.rows) = 1
        /\ lastOp.rows[1][PrimaryKey(lastOp.table)] \in lastOp.fresh
        /\ nOps' = nOps + 1
        /\ lastOp'.kind = "upsertRows" /\ lastOp'.ok /\ Len(lastOp'.rows) = 1
        /\ lastOp'.table = lastOp.table
        /\ lastOp'.rows[1][PrimaryKey(lastOp.table)] = lastOp.rows[1][PrimaryKey(lastOp.table)])
       => KeepsFirstWrite(db, db', lastOp.table, lastOp.rows[1][PrimaryKey(lastOp.table)],
                          lastOp'.rows[1])]_vars

C8_ResolveForeignKeys ==
    lastOp.kind = "resolveForeignKeys" =>
        LET t == lastOp.table
            cols == ForeignKeyColumns(t)
            target(c) == Schema[t].columns[c].table
            whole(r) == \A c \in cols : db.main[target(c)][r[c]] # NoRow
            kept == SelectSeq(lastOp.rows, whole)
        IN  /\ Len(lastOp.result) = Len(kept)
            /\ \A i \in DOMAIN kept :
                 /\ DOMAIN lastOp.result[i] = DOMAIN kept[i]
                 /\ \A c \in DOMAIN kept[i] \ cols : lastOp.result[i][c] = kept[i][c]
                 /\ \A c \in cols :
                       /\ lastOp.result[i][c][PrimaryKey(target(c))] = kept[i][c]
                       /\ Restrict(lastOp.result[i][c], NonVirtualColumns(target(c)))
                             = db.main[target(c)][kept[i][c]]

C8_Witness ==
    /\ lastOp.kind = "resolveForeignKeys"
    /\ Len(lastOp.rows) = 2
    /\ Len(lastOp.result) = 1
    /\ db.main["post"][lastOp.rows[1].post] = NoRow
    /\ lastOp.result[1].id = lastOp.rows[2].id
    /\ lastOp.result[1].user = selectByPrimaryKeys(db, "user", <<lastOp.rows[2].user>>)[1]

GoneEverywhere(d, t, p) == d.main[t][p] = NoRow /\ d.fts[t][p] = <<>> /\ d.vec[t][p] = <<>>

\* C9 as stated: after deleteWhere(q) a select of q returns no rows, and the
\* main table and its shadow tables hold no row for a key that matched q.
C9_DeleteWhereThenSelect ==
    (lastOp.kind = "deleteWhere" /\ lastOp.ok) =>
        /\ Select(db, lastOp.query) = <<>>
        /\ \A p \in SeqToSet(lastOp.pks) : GoneEverywhere(db, lastOp.table, p)

\* C9 amended: the select is empty when q carries no vector (k nearest)
\* query; the rows that matched q are gone from all three tables in any case.
C9_DeleteWhereThenSelectNoVector ==
    (lastOp.kind = "deleteWhere" /\ lastOp.ok) =>
        /\ lastOp.query.vectorQuery = NoVectorQuery => Select(db, lastOp.query) = <<>>
        /\ \A p \in SeqToSet(lastOp.pks) : GoneEverywhere(db, lastOp.table, p)

C9_Witness ==
    /\ lastOp.kind = "deleteWhere" /\ lastOp.ok
    /\ lastOp.query.vectorQuery = NoVectorQuery
    /\ lastOp.query.condition.type = "where"
    /\ lastOp.pks # <<>>
    /\ MainKeys(db, lastOp.table) # {}

\* C10: a garbageCollect that follows a garbageCollect of the same tables,
\* with nothing in between, deletes no row.
C10_GarbageCollectIdempotent ==
    (lastOp.kind = "garbageCollect" /\ lastOp.prior >= 0) => lastOp.removed = 0

C10_Witness ==
    /\ lastOp.kind = "garbageCollect"
    /\ lastOp.prior > 0
    /\ MainKeys(db, "post") # {}

\* C11: after garbageCollect(table) no shadow row of the table has an
\* originPK that is absent from the main table, and the run removed no
\* main-table row and no shadow row whose originPK is present in the main table.
C11_GarbageCollectFrame ==
    (lastOp.kind = "garbageCollect" /\ lastOp.table # AllTables) =>
        LET t == lastOp.table
            b == lastOp.before
        IN  /\ ShadowKeys(db.fts[t]) \subseteq MainKeys(db, t)
            /\ ShadowKeys(db.vec[t]) \subseteq MainKeys(db, t)
            /\ db.main = b.main
            /\ \A p \in MainKeys(b, t) :
                  db.fts[t][p] = b.fts[t][p] /\ db.vec[t][p] = b.vec[t][p]

C11_Witness ==
    /\ lastOp.kind = "garbageCollect" /\ lastOp.table = "post"
    /\ ShadowKeys(lastOp.before.vec["post"]) \ MainKeys(lastOp.before, "post") # {}
    /\ ShadowKeys(lastOp.before.fts["post"]) \ MainKeys(lastOp.before, "post") # {}
    /\ ShadowKeys(db.vec["post"]) # {}

\* the row selectByPrimaryKeys must return for the inserted row r: r on every
\* non-vector column, and a null distance in place of each vector column
RoundTrip(t, r) ==
    LET dcols == {getVectorDistanceColumnName(c) : c \in getVectorColumns(t)}
    IN  [c \in (DOMAIN r \ getVectorColumns(t)) \cup dcols |->
            IF c \in dcols THEN NullDistance ELSE r[c]]

\* C12: for every row r accepted by insertRow or insertRows,
\* selectByPrimaryKeys(table, [pk(r)]) afterwards returns one row, equal to r
\* on every non-vector column, with each vector column absent and replaced
\* by a null $distance_<col>.
C12_InsertThenSelectByPrimaryKeys ==
    (lastOp.kind \in {"insertRow", "insertRows"} /\ lastOp.ok) =>
        \A i \in DOMAIN lastOp.rows :
            selectByPrimaryKeys(db, lastOp.table, <<lastOp.rows[i][PrimaryKey(lastOp.table)]>>)
                = <<RoundTrip(lastOp.table, lastOp.rows[i])>>

\* C17: after an accepted insertRow, insertRows, upsertRows or updateRows, no
\* full-text value stored in the shadow table for a written key contains a
\* smart quote or smart apostrophe.
C17_ShadowNormalized ==
    (lastOp.kind \in {"insertRow", "insertRows", "upsertRows", "updateRows"} /\ lastOp.ok) =>
        \A i \in DOMAIN lastOp.rows :
            LET stored == db.fts[lastOp.table][lastOp.rows[i][PrimaryKey(lastOp.table)]]
            IN  \A n \in DOMAIN stored :
                    \A c \in DOMAIN stored[n] \cap getFullTextColumns(lastOp.table) :
                        SeqToSet(stored[n][c]) \cap {"RDQUO", "LDQUO", "RSQUO", "LSQUO"} = {}

\* C19: in the result of a select with a vector query of k neighbours on
\* column emb, no row has a null $distance_emb; a row whose key owns a shadow
\* row that is among the k nearest has the distance of such a row, a finite
\* number; a row whose key owns none has the sentinel; and under a
\* lessThan(t) condition on $distance(emb) no returned row carries the
\* sentinel.
C19_VectorDistances ==
    (lastOp.kind = "select" /\ lastOp.query.vectorQuery # NoVectorQuery) =>
        LET q == lastOp.query
            t == q.tableName
            v == q.vectorQuery.queryVectors["emb"]
            k == q.vectorQuery.k
            rows == VecRows(db, t, "emb")
            dist(x) == VecDistance(db.vec[t][x[1]][x[2]]["emb"], v)
            nearer(x) == {y \in rows : dist(y) < dist(x)}
            notFarther(x) == {y \in rows \ {x} : dist(y) <= dist(x)}
            dcol == getVectorDistanceColumnName("emb")
        IN  \A i \in DOMAIN lastOp.result :
                LET r == lastOp.result[i]
                    mine == {x \in rows : x[1] = r[PrimaryKey(t)]}
                IN  /\ r[dcol] # NullDistance
                    /\ (\E x \in mine : Cardinality(notFarther(x)) < k) =>
                          (r[dcol] < Infinity /\ \E x \in mine : r[dcol] = dist(x))
                    /\ (\A x \in mine : Cardinality(nearer(x)) >= k) => r[dcol] = Infinity
                    /\ (q.condition.type = "where" /\ q.condition.ref.kind = "distance"
                            /\ q.condition.operation = "lessThan") =>
                          (r[dcol] # Infinity /\ r[dcol] < q.condition.value)

C19_Witness ==
    /\ lastOp.kind = "select"
    /\ lastOp.query.vectorQuery # NoVectorQuery
    /\ lastOp.query.vectorQuery.k = 1
    /\ lastOp.query.condition = NoCondition
    /\ \E i \in DOMAIN lastOp.result : \E j \in DOMAIN lastOp.result :
           /\ lastOp.result[i]["$distance_emb"] < Infinity
           /\ lastOp.result[j]["$distance_emb"] = Infinity

\* whether a returned row matches a condition over direct columns, read as
\* the claim reads it: All is every child, Any is some child, and either
\* with no child is true
RECURSIVE Matches(_, _)
Matches(row, cond) ==
    CASE cond.type = "where" ->
            IF cond.operation = "equals" THEN row[cond.ref.column] = cond.value
            ELSE row[cond.ref.column] # cond.value
      [] cond.type = "all" ->
            \A i \in DOMAIN cond.conditions : Matches(row, cond.conditions[i])
      [] cond.type = "any" ->
            \/ cond.conditions = <<>>
            \/ \E i \in DOMAIN cond.conditions : Matches(row, cond.conditions[i])
      [] OTHER -> TRUE

\* C20: a select whose condition is an All or an Any returns the rows of the
\* table that match every child, respectively at least one child; with zero
\* children it returns every row.
C20_AllAnyComposition ==
    (lastOp.kind = "select" /\ ~lastOp.suppressed /\ lastOp.query \in CompositeQueries) =>
        lastOp.result =
            SelectSeq(Select(db, Query(lastOp.table, NoCondition, NoVectorQuery)),
                      LAMBDA row : Matches(row, lastOp.query.condition))

\* C28: each shadow table holds at most one row per originPK value.
C28_OneShadowRowPerKey ==
    \A t \in TableNames : \A p \in PKs : Len(db.fts[t][p]) <= 1 /\ Len(db.vec[t][p]) <= 1

\* the rows (table, key) of d whose foreign key names a row of t with a key in pks
ReferencingRows(d, t, pks) ==
    {x \in TableNames \X PKs :
        /\ d.main[x[1]][x[2]] # NoRow
        /\ \E c \in ForeignKeyColumns(x[1]) \cap DOMAIN d.main[x[1]][x[2]] :
              /\ Schema[x[1]].columns[c].table = t
              /\ d.main[x[1]][x[2]][c] \in SeqToSet(pks)
              /\ d.main[t][d.main[x[1]][x[2]][c]] # NoRow}

\* the keys of t that have shadow rows and no main row
OrphanKeys(d, t) == (ShadowKeys(d.fts[t]) \cup ShadowKeys(d.vec[t])) \ MainKeys(d, t)

\* deleting rows of a referenced table removes the main rows that reference them
C29_CascadeRemovesMainRows ==
    (nOps' = nOps + 1 /\ lastOp'.kind = "deleteRows" /\ lastOp'.ok) =>
        \A x \in ReferencingRows(db, lastOp'.table, lastOp'.pks) :
            db'.main[x[1]][x[2]] = NoRow

\* ... and keeps their shadow rows
C29_CascadeKeepsShadowRows ==
    (nOps' = nOps + 1 /\ lastOp'.kind = "deleteRows" /\ lastOp'.ok) =>
        \A x \in ReferencingRows(db, lastOp'.table, lastOp'.pks) :
            /\ db'.fts[x[1]][x[2]] = db.fts[x[1]][x[2]]
            /\ db'.vec[x[1]][x[2]] = db.vec[x[1]][x[2]]

\* orphaned shadow rows stay through every call but garbageCollect
C29_OrphansStay ==
    (nOps' = nOps + 1 /\ lastOp'.kind # "garbageCollect") =>
        \A t \in TableNames : \A p \in OrphanKeys(db, t) :
            /\ db.fts[t][p] # <<>> => db'.fts[t][p] # <<>>
            /\ db.vec[t][p] # <<>> => db'.vec[t][p] # <<>>

\* ... and are gone after garbageCollect of their table
C29_OrphansCollected ==
    (nOps' = nOps + 1 /\ lastOp'.kind = "garbageCollect" /\ lastOp'.ok) =>
        \A t \in TableNames :
            lastOp'.table \in {t, AllTables} => OrphanKeys(db', t) = {}

\* C29: deleting a row of a referenced table removes the main-table rows that
\* reference it and not their shadow rows; the orphaned shadow rows remain
\* until garbageCollect runs on the referencing table and are gone after it.
C29_CascadeOrphansUntilCollected ==
    [][/\ C29_CascadeRemovesMainRows
       /\ C29_CascadeKeepsShadowRows
       /\ C29_OrphansStay
       /\ C29_OrphansCollected]_vars

\* C30: garbageCollect runs its delete statements in one engine transaction:
\* at every point of a run the stored tables are those before the run or
\* those after it, so either every shadow table of the run is cleaned or none.
C30_GarbageCollectAtomic ==
    lastOp.kind = "garbageCollect" =>
        \A k \in DOMAIN lastOp.disk :
            lastOp.disk[k] \in {lastOp.disk[1], lastOp.disk[Len(lastOp.disk)]}

\* the statements of a list that go to the given part (main, fts, vec)
StatementsOn(cmds, part) == {i \in DOMAIN cmds : Part(cmds[i]) = part}

\* the rows of an update payload that hold one of the given columns
RowsTouching(rows, cols) == {i \in DOMAIN rows : DOMAIN rows[i] \cap cols # {}}

\* C31: updateRows (and updateRow through it) sends an update statement to
\* the full-text, respectively vector, shadow table only for the rows whose
\* payload holds a full-text, respectively vector, column; a payload that
\* holds neither produces exactly one statement, on the main table.
C31_ShadowUpdatesOnlyWhenTouched ==
    lastOp.kind = "updateRows" =>
        LET t == lastOp.table
            rows == lastOp.rows
            cmds == cmdUpdateMany(t, rows)
        IN  /\ Cardinality(StatementsOn(cmds, "main")) = Len(rows)
            /\ Cardinality(StatementsOn(cmds, "fts"))
                 = Cardinality(RowsTouching(rows, getFullTextColumns(t)))
            /\ Cardinality(StatementsOn(cmds, "vec"))
                 = Cardinality(RowsTouching(rows, getVectorColumns(t)))
            /\ \A i \in StatementsOn(cmds, "fts") \cup StatementsOn(cmds, "vec") :
                  DOMAIN cmds[i].rows[1] # {}

\* every main-table column of t other than the primary key is flagged
EveryColumnFlagged(t) ==
    \A c \in NonVirtualColumns(t) \ {PrimaryKey(t)} : Schema[t].columns[c].noReplaceOnUpsert

StoredKeys(d, t) == {p \in PKs : d.main[t][p] # NoRow}

\* C38: when every non-primary-key main-table column of the table is flagged
\* noReplaceOnUpsert, upsertRows of a row whose primary key is already stored
\* leaves the stored main-table row as it was and adds no second row: the
\* keys stored afterwards are the keys stored before and the new keys of the
\* call, one row each.
C38_UpsertAllFlaggedIsNoOp ==
    [][(/\ nOps' # nOps
        /\ lastOp'.kind = "upsertRows"
        /\ EveryColumnFlagged(lastOp'.table)) =>
          LET t == lastOp'.table
              keys == {lastOp'.rows[k][PrimaryKey(t)] : k \in DOMAIN lastOp'.rows}
          IN  /\ \A p \in keys \cap StoredKeys(db, t) : db'.main[t][p] = db.main[t][p]
              /\ StoredKeys(db', t) \subseteq StoredKeys(db, t) \cup keys
              /\ lastOp'.ok => StoredKeys(db', t) = StoredKeys(db, t) \cup keys]_vars

\* upsertRows("user", ...) has succeeded with a row whose key was stored and
\* whose name is not the stored one
C38_Witness ==
    /\ lastOp.kind = "upsertRows" /\ lastOp.ok
    /\ EveryColumnFlagged(lastOp.table)
    /\ \E k \in DOMAIN lastOp.rows :
          LET p == lastOp.rows[k][PrimaryKey(lastOp.table)]
          IN  /\ p \notin lastOp.fresh
              /\ db.main[lastOp.table][p] # NoRow
              /\ db.main[lastOp.table][p].name # lastOp.rows[k].name

\* C34: from every starting state in which both succeed, insertRows(table, [r])
\* leaves the main table and the shadow tables as insertRow(table, r) does.
C34_InsertRowsAsInsertRow ==
    [][(nOps' = nOps + 1 /\ lastOp'.kind = "insertRow" /\ lastOp'.ok) =>
          \A many \in {RunBatches(Conn, FALSE, lastOp'.table, lastOp'.rows,
                                  DefaultBatchSize, 0, fkOn)} :
              many.ok => many.db = db']_vars

\* C23: deleteRows with an empty primary-key list sends no statement to the
\* connection and leaves the main table and the shadow tables as they were.
C23_DeleteNothing ==
    [][(nOps' = nOps + 1 /\ lastOp'.kind = "deleteRows" /\ lastOp'.pks = <<>>)
         => (lastOp'.sent = 0 /\ lastOp'.ok /\ db' = db /\ durable' = durable)]_vars

C23_Witness ==
    /\ lastOp.kind = "deleteRows" /\ lastOp.pks = <<>> /\ lastOp.table = "post"
    /\ MainKeys(db, "post") # {} /\ ShadowKeys(db.fts["post"]) # {}

\* C22: for a query builder on which suppress() was called, select returns
\* the empty list, selectOne returns null and exists returns false, and no
\* statement is sent to the connection.
C22_SuppressedSendsNothing ==
    (lastOp.kind \in {"select", "selectOne", "exists"} /\ lastOp.suppressed) =>
        /\ lastOp.sent = 0
        /\ lastOp.kind = "select" => lastOp.result = <<>>
        /\ lastOp.kind = "selectOne" => lastOp.result = Null
        /\ lastOp.kind = "exists" => lastOp.result = FALSE

C22_Witness ==
    /\ lastOp.kind = "selectOne" /\ lastOp.suppressed
    /\ Select(db, lastOp.query) # <<>>

----------------------------------------------------------------------------
(* Properties of the connection adapter (SpecConn)                          *)

\* C7: executeInTransaction is all-or-nothing: a call that fails leaves the
\* tables as they were and the connection without an open transaction.
C7_AllOrNothing ==
    [][(lastOp'.kind = "executeInTransaction" /\ nOps' = nOps + 1 /\ ~lastOp'.ok)
         => (db' = db /\ durable' = durable /\ ~inTxn')]_vars

----------------------------------------------------------------------------
(* Properties of the condition compiler (SpecCompile)                       *)

\* C13: compiling a leaf condition whose operator is not one declared for the
\* kind of the resolved column raises an error: it is neither ignored nor
\* compiled as another operator.
C13_UnknownOperatorRaises ==
    (/\ lastOp.kind = "handleColumnOperation"
     /\ lastOp.operator \notin WhereOperations(lastOp.column.columnType.type))
        => lastOp.result.node = "throw"

\* the tokens of a string: its maximal runs of non-whitespace characters
RECURSIVE WhitespaceTokens(_)
WhitespaceTokens(str) ==
    IF str = <<>> THEN <<>>
    ELSE IF Head(str) \in WhitespaceChars THEN WhitespaceTokens(Tail(str))
    ELSE LET n == CHOOSE k \in 1..Len(str) :
                     /\ \A i \in 1..k : str[i] \notin WhitespaceChars
                     /\ k = Len(str) \/ str[k + 1] \in WhitespaceChars
         IN  <<SubSeq(str, 1, n)>> \o WhitespaceTokens(SubSeq(str, n + 1, Len(str)))

\* C18: matches(v) on a full-text column compiles to the shadow table's
\* token-match predicate over the whitespace-separated tokens of v, each
\* quoted, exactly when v has length at least 3, and to the prefix predicate
\* LIKE 'v%' on the same shadow column exactly when v is shorter.
C18_MatchesCompilation ==
    (/\ lastOp.kind = "handleColumnOperation"
     /\ lastOp.column.columnType.type = "fullTextString"
     /\ lastOp.operator = "matches")
        => LET v == lastOp.value
               shadow == Col(getFTS5VirtualTableName(lastOp.column.tableName),
                             lastOp.column.columnName)
               tokens == WhitespaceTokens(v)
               quoted == [i \in DOMAIN tokens |-> <<"QUOT">> \o tokens[i] \o <<"QUOT">>]
           IN  lastOp.result = IF Len(v) >= 3
                               THEN Node("originPK in", shadow, "match", Join(quoted, "SP"))
                               ELSE Node("originPK in", shadow, "like", v \o <<"%">>)

----------------------------------------------------------------------------
(* Properties of createTables (SpecSchema)                                  *)

VirtualPrimaryKey(schema) ==
    \E t \in DOMAIN schema :
        schema[t].columns[schema[t].primaryKey].type \in {"fullTextString", "vector"}

\* C14: createTables on a schema in which some table's primary key is a
\* full-text or a vector column fails and sends no statement to the
\* connection: no table of the schema is created.
C14_CreateTablesRejectsVirtualPrimaryKey ==
    (lastOp.kind = "createTables" /\ VirtualPrimaryKey(lastOp.schema)) =>
        /\ ~lastOp.ok
        /\ lastOp.sent = 0
        /\ lastOp.tables = {}

\* the first table compiles, the second has a vector primary key
C14_Witness ==
    /\ lastOp.kind = "createTables"
    /\ lastOp.schema.a.columns.id.type = "number"
    /\ lastOp.schema.a.columns.x.type = "fullTextString"
    /\ lastOp.schema.b.columns.id.type = "vector"
    /\ ~lastOp.ok /\ lastOp.sent = 0

----------------------------------------------------------------------------
(* Properties of the query builder (SpecBuilder)                            *)

\* what the holder of the returned Query reads in it now
QueryRead ==
    [tableName |-> lastOp.query.tableName,
     condition |-> Seen(lastOp.heap, lastOp.query.condition),
     sortBy |-> lastOp.query.sortBy, vectorQuery |-> lastOp.query.vectorQuery]

\* what toQuery returned
QueryReturned ==
    [tableName |-> lastOp.query.tableName, condition |-> lastOp.query.seen,
     sortBy |-> lastOp.query.sortBy, vectorQuery |-> lastOp.query.vectorQuery]

\* C37: a Query returned by toQuery() is not changed by later and(), sortBy()
\* or withVectorDistances() calls on the same builder: whatever is called on
\* the builder afterwards, the Query reads as it did when it was returned.
C37_ReturnedQueryFrozen ==
    (lastOp.kind = "builder" /\ lastOp.query.returned) => QueryRead = QueryReturned

\* the rows of Seeded a condition matches; a condition that contains itself
\* has no compiled form
MatchedRows(cond) ==
    IF cond = CyclicCondition THEN {"RangeError"}
    ELSE SeqToSet(Select(Seeded, Query("post", cond, NoVectorQuery)))

RECURSIVE MatchedByAll(_)
MatchedByAll(results) ==
    IF results = <<>> THEN MatchedRows(NoCondition)
    ELSE MatchedRows(Head(results).value) \cap MatchedByAll(Tail(results))

C39_ConditionOf(b) ==
    LET n == Len(b.results)
    IN  CASE n = 0 -> b.condition = NullRef
          [] n = 1 -> b.condition = b.results[1].ref
          [] OTHER -> MatchedRows(Seen(b.heap, b.condition)) = MatchedByAll(b.results)

\* C39: after and() has been called on a fresh builder with the results
\* c1..cn (the falsy ones skipped), the condition of the builder is null when
\* n = 0, is c1 when n = 1, and otherwise matches exactly the rows that every
\* one of c1..cn matches, whatever their types; an and() whose builder
\* function returns nothing leaves the condition as it was.
C39_AndIsConjunction ==
    [][lastOp.kind = "builder" =>
          /\ C39_ConditionOf(lastOp')
          /\ lastOp'.call = "andNothing" =>
                 /\ lastOp'.condition = lastOp.condition
                 /\ lastOp'.heap = lastOp.heap]_vars

----------------------------------------------------------------------------
(* Properties of the derived names (SpecNaming)                             *)

Injective(f) == \A x \in DOMAIN f : \A y \in DOMAIN f : f[x] = f[y] => x = y

Range(f) == {f[x] : x \in DOMAIN f}

\* C40: the derived names are collision-free: in every schema distinct
\* tables have distinct full-text shadow names, distinct vector shadow names
\* and distinct primary-key constraint names, a full-text shadow name is no
\* vector shadow name, distinct (table, column) pairs have distinct
\* foreign-key constraint names, no foreign-key constraint name is a
\* primary-key constraint name, and no shadow-table name is the name of a
\* declared table.
C40_DerivedNamesCollisionFree ==
    lastOp.kind = "naming" =>
        LET n == lastOp.names
        IN  /\ Injective(n.fts) /\ Injective(n.vector) /\ Injective(n.pk) /\ Injective(n.fk)
            /\ Range(n.fts) \cap Range(n.vector) = {}
            /\ Range(n.fk) \cap Range(n.pk) = {}
            /\ (Range(n.fts) \cup Range(n.vector)) \cap DOMAIN lastOp.schema = {}

====
